---- MODULE Spec2Model ----
(***************************************************************************)
(* kickbeats: the MIDI playback loop (engine/playback.rs) with the event   *)
(* timelines it plays (engine/midi.rs) and the grid geometry they are      *)
(* built from (models/beat_grid.rs).                                       *)
(*                                                                         *)
(* Time is in milliseconds.  The controller (the owner of the              *)
(* MidiPlaybackLoop, one thread: start and stop take &mut self) and the    *)
(* playback threads it spawns interleave at their accesses to the shared   *)
(* is_playing flag, to the clock and to the output device.                 *)
(***************************************************************************)
EXTENDS Integers, Sequences, FiniteSets, TLC

VARIABLES
    is_playing,      \* MidiPlaybackLoop.is_playing (the shared AtomicBool)
    thread_handle,   \* MidiPlaybackLoop.thread_handle: 0 is None, else a thread
    threads,         \* every playback thread spawned so far, in spawn order
    joinee,          \* the thread stop() is blocked joining; 0 when not inside stop()
    now,             \* Instant::now(), in ms
    starts,          \* calls of start() that got past the AlreadyRunning guard
                     \* (each one queries the device: list_ports, connect)
    last_result,     \* what the last call of start() returned
    stop_returned    \* history: stop() has returned and no start() succeeded since

vars == <<is_playing, thread_handle, threads, joinee, now, starts, last_result, stop_returned>>

\* The pattern generator and the pure functions of the models do not share
\* state with the playback loop; each has a variable and specifications of
\* its own, and stays as it is while the playback loop runs.
VARIABLES
    gen,             \* the call of WeightedGenerator::generate_unique / generate in progress
    calc             \* a pure function, its arguments and (once applied) its value

allvars == <<vars, gen, calc>>

----------------------------------------------------------------------------
(* Bounds of the model *)

\* One playback at a time (SpecOneAtATime): the clock advances in steps of
\* TickMs, at most MaxTicks times, and start() gets past its AlreadyRunning
\* guard at most MaxStarts times.
TickMs == 200
MaxTicks == 9
MaxStarts == 2
\* Any order of calls (Spec), where playback threads can overlap: the same three
\* bounds, coarser.
RaceTickMs == 800
RaceTicks == 2
RaceStarts == 2
\* Pattern::validate_steps (SpecValidate) is applied to every sequence of steps
\* of at most MaxStepsLen positions.
MaxStepsLen == 16
\* Pattern::hamming_distance (SpecHamming) is applied to every pair of sequences
\* of at most MaxHammingLen positions (and to 16-step patterns).
MaxHammingLen == 3
\* PracticeSession::add_to_history (SpecHistory) is called at most MaxAdds times,
\* at most MaxOther of them with the second of the two patterns.
MaxAdds == 23
MaxOther == 3
\* BeatGrid and pattern_duration (SpecGrid) are applied to grids of at most
\* MaxMeasures measures.
MaxMeasures == 2
\* A session (SpecSession) generates at most MaxGenerated patterns.
MaxGenerated == 23

----------------------------------------------------------------------------
(* engine/midi.rs: constants *)

KICK_NOTE == 36
CLICK_NOTE == 37
KICK_VELOCITY == 100
CLICK_VELOCITY == 80

\* note-off delays: `time_offset + 0.05` (click), `time_offset + 0.1` (kick)
ClickOffMs == 50
KickOffMs == 100
\* generate_count_in_events: `let count_in_beats = 4`
count_in_beats == 4
\* Pattern::new: `let subdivision = 16`, `let num_measures = 1`
Subdivision == 16
NumMeasures == 1

----------------------------------------------------------------------------
(* Inputs of start() *)

\* tempos (BPM, within the CLI's 40..300) whose grid times are whole ms
Tempos == {300}

FourFour == [numerator |-> 4, denominator |-> 4]

StepsOf(kicks) == [i \in 1..16 |-> (i - 1) \in kicks]

\* the pattern of test_playback_stop (kicks at 0 and 4), and one whose last
\* kick is released after the pattern's end at 300 BPM
Patterns ==
    { [steps |-> StepsOf({0, 4}), time_signature |-> FourFour,
       subdivision |-> Subdivision, num_measures |-> NumMeasures],
      [steps |-> StepsOf({0, 8, 15}), time_signature |-> FourFour,
       subdivision |-> Subdivision, num_measures |-> NumMeasures] }

\* what the output-device layer answers to list_ports / connect
DeviceAnswers == {"ok", "no_ports", "connect_failed"}

----------------------------------------------------------------------------
(* models/beat_grid.rs *)

total_positions(grid) ==
    LET sixteenths_per_quarter == grid.subdivision \div 4
        quarters_per_measure ==
            (grid.time_signature.numerator * 4) \div grid.time_signature.denominator
    IN  sixteenths_per_quarter * quarters_per_measure * grid.num_measures

beat_positions(grid) ==
    LET positions_per_beat == grid.subdivision \div 4
    IN  [b \in 1..grid.time_signature.numerator |-> (b - 1) * positions_per_beat]

\* (60 / tempo) / (subdivision / 4) seconds, in ms
seconds_per_position(grid, tempo_bpm) ==
    (60000 \div tempo_bpm) \div (grid.subdivision \div 4)

\* metrical strengths in twentieths: 1.0 is 20, 0.2 is 4
beat_strength(grid, beat_num) ==
    LET numerator == grid.time_signature.numerator
        denominator == grid.time_signature.denominator
    IN  CASE numerator = 4 /\ denominator = 4 ->
                (CASE beat_num = 0 -> 20 [] beat_num = 2 -> 14 [] OTHER -> 8)
          [] numerator = 3 /\ denominator = 4 ->
                (CASE beat_num = 0 -> 20 [] OTHER -> 8)
          [] numerator = 6 /\ denominator = 8 ->
                (CASE beat_num = 0 -> 20 [] beat_num = 3 -> 12 [] OTHER -> 6)
          [] numerator = 2 /\ denominator = 4 ->
                (CASE beat_num = 0 -> 20 [] OTHER -> 8)
          [] numerator = 5 /\ denominator = 4 ->
                (CASE beat_num = 0 -> 20 [] beat_num = 2 -> 12 [] OTHER -> 6)
          [] numerator = 7 /\ denominator = 8 ->
                (CASE beat_num = 0 -> 20 [] beat_num = 2 -> 12
                   [] beat_num = 4 -> 10 [] OTHER -> 6)
          [] OTHER ->
                (CASE beat_num = 0 -> 20
                   [] beat_num # 0 /\ beat_num = numerator \div 2 -> 12
                   [] OTHER -> 8)

position_strength(grid, idx) ==
    LET positions_per_beat == grid.subdivision \div 4
    IN  IF idx = 0 THEN 20
        ELSE IF idx % positions_per_beat = 0
             THEN beat_strength(grid, idx \div positions_per_beat)
             ELSE 4

GridOf(pattern) ==
    [time_signature |-> pattern.time_signature,
     subdivision |-> pattern.subdivision,
     num_measures |-> pattern.num_measures]

----------------------------------------------------------------------------
(* engine/midi.rs: the two timelines *)

NoteOn(t, note, velocity) ==
    [time_offset |-> t, note |-> note, velocity |-> velocity, event_type |-> "NoteOn"]

NoteOff(t, note) ==
    [time_offset |-> t, note |-> note, velocity |-> 0, event_type |-> "NoteOff"]

RECURSIVE Flatten(_)
Flatten(ss) == IF ss = <<>> THEN <<>> ELSE Head(ss) \o Flatten(Tail(ss))

\* a sort that puts an event before the events of the same time_offset
RECURSIVE InsertBeforeEqual(_, _)
InsertBeforeEqual(sorted, e) ==
    IF sorted = <<>> THEN <<e>>
    ELSE IF Head(sorted).time_offset < e.time_offset
         THEN <<Head(sorted)>> \o InsertBeforeEqual(Tail(sorted), e)
         ELSE <<e>> \o sorted

\* Vec::sort_by on time_offset: a stable sort
RECURSIVE InsertStable(_, _)
InsertStable(sorted, e) ==
    IF sorted = <<>> THEN <<e>>
    ELSE IF Head(sorted).time_offset <= e.time_offset
         THEN <<Head(sorted)>> \o InsertStable(Tail(sorted), e)
         ELSE <<e>> \o sorted

\* the timeline left in insertion order (clicks, then kicks)
SortByTimeOmitted(events) == events

RECURSIVE SortByTime(_)
SortByTime(events) ==
    IF events = <<>> THEN <<>>
    ELSE InsertStable(SortByTime(SubSeq(events, 1, Len(events) - 1)),
                      events[Len(events)])

generate_count_in_events(tempo_bpm) ==
    LET ms_per_beat == 60000 \div tempo_bpm
    IN  Flatten([beat \in 1..count_in_beats |->
            <<NoteOn((beat - 1) * ms_per_beat, CLICK_NOTE, CLICK_VELOCITY),
              NoteOff((beat - 1) * ms_per_beat + ClickOffMs, CLICK_NOTE)>>])

\* the timeline with the click track whatever include_click says
pattern_to_midi_events_with_click(pattern, tempo_bpm, include_click) ==
    LET grid == GridOf(pattern)
        spp == seconds_per_position(grid, tempo_bpm)
        beats == beat_positions(grid)
        clicks ==
            Flatten([b \in 1..Len(beats) |->
                    <<NoteOn(beats[b] * spp, CLICK_NOTE, CLICK_VELOCITY),
                      NoteOff(beats[b] * spp + ClickOffMs, CLICK_NOTE)>>])
        kicks ==
            Flatten([i \in 1..Len(pattern.steps) |->
                    IF pattern.steps[i]
                    THEN <<NoteOn((i - 1) * spp, KICK_NOTE, KICK_VELOCITY),
                           NoteOff((i - 1) * spp + KickOffMs, KICK_NOTE)>>
                    ELSE <<>>])
    IN  SortByTime(clicks \o kicks)

pattern_to_midi_events(pattern, tempo_bpm, include_click) ==
    LET grid == GridOf(pattern)
        spp == seconds_per_position(grid, tempo_bpm)
        beats == beat_positions(grid)
        clicks ==
            IF include_click
            THEN Flatten([b \in 1..Len(beats) |->
                    <<NoteOn(beats[b] * spp, CLICK_NOTE, CLICK_VELOCITY),
                      NoteOff(beats[b] * spp + ClickOffMs, CLICK_NOTE)>>])
            ELSE <<>>
        kicks ==
            Flatten([i \in 1..Len(pattern.steps) |->
                    IF pattern.steps[i]
                    THEN <<NoteOn((i - 1) * spp, KICK_NOTE, KICK_VELOCITY),
                           NoteOff((i - 1) * spp + KickOffMs, KICK_NOTE)>>
                    ELSE <<>>])
    IN  SortByTime(clicks \o kicks)

count_in_duration(tempo_bpm) == 4 * (60000 \div tempo_bpm)

pattern_duration(pattern, tempo_bpm) ==
    total_positions(GridOf(pattern)) * seconds_per_position(GridOf(pattern), tempo_bpm)

----------------------------------------------------------------------------
(* engine/playback.rs *)

DRIFT_THRESHOLD_MS == 10

\* a playback thread: where it is, its locals, and its history
NoThread ==
    [pc |-> "none",
     count_in_events |-> <<>>,
     pattern_events |-> <<>>,
     count_in_duration |-> 0,
     pattern_duration |-> 0,
     start_time |-> 0,
     idx |-> 0,
     pattern_start_time |-> 0,
     loop_count |-> 0,
     loop_start |-> 0,
     max_drift_ms |-> 0,
     warned |-> FALSE,
     \* history, for stating properties:
     last_sent |-> <<>>,      \* the last two messages the thread handed to the device
     count_in_sent |-> 0,     \* count-in events sent
     body_sent |-> 0,         \* pattern events sent in the current pass of the loop
     failure |-> "no"]        \* "fresh": a send of this thread has failed and no
                              \* start() has succeeded since; "old": one has

\* the closure handed to thread::spawn, with what start() computed for it
NewThread(pattern, tempo_bpm, include_click) ==
    [NoThread EXCEPT
        !.pc = "spawned",
        !.count_in_events = generate_count_in_events(tempo_bpm),
        !.pattern_events = pattern_to_midi_events(pattern, tempo_bpm, include_click),
        !.count_in_duration = count_in_duration(tempo_bpm),
        !.pattern_duration = pattern_duration(pattern, tempo_bpm)]

\* no call of the generator in progress; no function under evaluation
NoGen == [pc |-> "idle"]
NoCalc == [fn |-> "none"]

\* the playback loop runs, the rest stays as it is
PlaybackOnly == UNCHANGED <<gen, calc>>

\* MidiPlaybackLoop::new()
InitPlayback ==
    /\ is_playing = FALSE
    /\ thread_handle = 0
    /\ threads = <<>>
    /\ joinee = 0
    /\ now = 0
    /\ starts = 0
    /\ last_result = "None"
    /\ stop_returned = FALSE

Init ==
    /\ gen = NoGen
    /\ calc = NoCalc
    /\ InitPlayback

\* is_playing()
IsPlaying == is_playing

\* start() without its AlreadyRunning guard
StartUnguarded(pattern, tempo_bpm, include_click, device) ==
    /\ joinee = 0
    /\ starts' = starts + 1
    /\ is_playing' = TRUE
    /\ threads' = Append(threads, NewThread(pattern, tempo_bpm, include_click))
    /\ thread_handle' = Len(threads) + 1
    /\ last_result' = "Ok"
    /\ stop_returned' = FALSE
    /\ UNCHANGED <<joinee, now>>

\* start() that sets the flag before it asks for the device
StartFlagBeforeDevice(pattern, tempo_bpm, include_click, device) ==
    /\ joinee = 0
    /\ IF is_playing
       THEN /\ last_result' = "AlreadyRunning"
            /\ UNCHANGED <<is_playing, thread_handle, threads, joinee, now, starts,
                           stop_returned>>
       ELSE /\ starts' = starts + 1
            /\ is_playing' = TRUE
            /\ IF device # "ok"
               THEN /\ last_result' = "DeviceUnavailable"
                    /\ UNCHANGED <<thread_handle, threads, joinee, now, stop_returned>>
               ELSE /\ threads' =
                         Append([c \in DOMAIN threads |->
                                   IF threads[c].failure = "fresh"
                                   THEN [threads[c] EXCEPT !.failure = "old"]
                                   ELSE threads[c]],
                                NewThread(pattern, tempo_bpm, include_click))
                    /\ thread_handle' = Len(threads) + 1
                    /\ last_result' = "Ok"
                    /\ stop_returned' = FALSE
                    /\ UNCHANGED <<joinee, now>>

\* start(): the AlreadyRunning guard, the device, the timelines, the flag, the spawn
Start(pattern, tempo_bpm, include_click, device) ==
    /\ joinee = 0
    /\ IF is_playing
       THEN /\ last_result' = "AlreadyRunning"
            /\ UNCHANGED <<is_playing, thread_handle, threads, joinee, now, starts,
                           stop_returned>>
       ELSE /\ starts' = starts + 1
            /\ IF device # "ok"
               THEN /\ last_result' = "DeviceUnavailable"
                    /\ UNCHANGED <<is_playing, thread_handle, threads, joinee, now,
                                   stop_returned>>
               ELSE /\ is_playing' = TRUE
                    /\ threads' =
                         Append([c \in DOMAIN threads |->
                                   IF threads[c].failure = "fresh"
                                   THEN [threads[c] EXCEPT !.failure = "old"]
                                   ELSE threads[c]],
                                NewThread(pattern, tempo_bpm, include_click))
                    /\ thread_handle' = Len(threads) + 1
                    /\ last_result' = "Ok"
                    /\ stop_returned' = FALSE
                    /\ UNCHANGED <<joinee, now>>

\* stop(), up to the join: clear the flag, take the handle
Stop ==
    /\ joinee = 0
    /\ is_playing' = FALSE
    /\ thread_handle' = 0
    /\ IF thread_handle = 0
       THEN stop_returned' = TRUE /\ UNCHANGED joinee
       ELSE joinee' = thread_handle /\ UNCHANGED stop_returned
    /\ UNCHANGED <<threads, now, starts, last_result>>

\* stop() returns when the joined thread has finished
StopJoined ==
    /\ joinee # 0
    /\ threads[joinee].pc = "done"
    /\ joinee' = 0
    /\ stop_returned' = TRUE
    /\ UNCHANGED <<is_playing, thread_handle, threads, now, starts, last_result>>

----------------------------------------------------------------------------
(* the playback thread *)

Message(phase, loop, idx, event, target, ok) ==
    [phase |-> phase, loop |-> loop, idx |-> idx, note |-> event.note,
     event_type |-> event.event_type, target |-> target, ok |-> ok]

\* the thread hands a message to its device connection
Send(t, m) ==
    [t EXCEPT !.last_sent = IF @ = <<>> THEN <<m>> ELSE <<@[Len(@)], m>>,
              !.count_in_sent = IF m.phase = "count_in" THEN @ + 1 ELSE @,
              !.body_sent = IF m.phase = "body" THEN @ + 1 ELSE @]

\* the thread has returned: its locals are gone, its history stays
Finished(t) ==
    [NoThread EXCEPT !.pc = "done", !.last_sent = t.last_sent, !.failure = t.failure]

\* lines 103-108: leaving the count-in (completed or broken off)
EnterLoop(t) ==
    [t EXCEPT !.pc = "loop_top",
              !.pattern_start_time = t.start_time + t.count_in_duration,
              !.loop_count = 0,
              !.max_drift_ms = 0]

\* the end of one pass of `while is_playing`: loop_count += 1
NextLoop(t) == [t EXCEPT !.pc = "loop_top", !.loop_count = t.loop_count + 1, !.body_sent = 0]

\* the thread that takes the origin of the clock as its start_time
ThreadBeginStaleClock(c) ==
    /\ threads[c].pc = "spawned"
    /\ threads' = [threads EXCEPT ![c] =
          IF threads[c].count_in_events = <<>>
          THEN EnterLoop([@ EXCEPT !.start_time = 0])
          ELSE [@ EXCEPT !.start_time = 0, !.idx = 1, !.pc = "count_in"]]
    /\ UNCHANGED <<is_playing, thread_handle, joinee, now, starts, last_result,
                   stop_returned>>

\* let start_time = Instant::now()
ThreadBegin(c) ==
    /\ threads[c].pc = "spawned"
    /\ threads' = [threads EXCEPT ![c] =
          IF threads[c].count_in_events = <<>>
          THEN EnterLoop([@ EXCEPT !.start_time = now])
          ELSE [@ EXCEPT !.start_time = now, !.idx = 1, !.pc = "count_in"]]
    /\ UNCHANGED <<is_playing, thread_handle, joinee, now, starts, last_result,
                   stop_returned>>

\* one count-in event: sleep until its time, send it; a failed send clears the flag
CountInSend(c, ok) ==
    LET t == threads[c]
        event == t.count_in_events[t.idx]
        event_time == t.start_time + event.time_offset
        told == Send(t, Message("count_in", 0, t.idx, event, event_time, ok))
    IN  /\ t.pc = "count_in"
        /\ now >= event_time
        /\ IF ok
           THEN /\ threads' = [threads EXCEPT ![c] = [told EXCEPT !.pc = "count_in_check"]]
                /\ UNCHANGED is_playing
           ELSE /\ threads' = [threads EXCEPT ![c] =
                                  EnterLoop([told EXCEPT !.failure = "fresh"])]
                /\ is_playing' = FALSE
        /\ UNCHANGED <<thread_handle, joinee, now, starts, last_result, stop_returned>>

\* `if !is_playing.load() { break }` after a count-in event
CountInCheck(c) ==
    LET t == threads[c]
    IN  /\ t.pc = "count_in_check"
        /\ threads' = [threads EXCEPT ![c] =
              IF ~is_playing \/ t.idx = Len(t.count_in_events)
              THEN EnterLoop(t)
              ELSE [t EXCEPT !.idx = t.idx + 1, !.pc = "count_in"]]
        /\ UNCHANGED <<is_playing, thread_handle, joinee, now, starts, last_result,
                       stop_returned>>

\* the loop with the start of each pass taken from the clock
LoopTopFromClock(c) ==
    LET t == threads[c]
    IN  /\ t.pc = "loop_top"
        /\ threads' = [threads EXCEPT ![c] =
              IF ~is_playing
              THEN [t EXCEPT !.pc = "exit_kick"]
              ELSE [t EXCEPT !.pc = "skip_check",
                             !.loop_start = IF t.loop_count = 0
                                            THEN t.pattern_start_time
                                            ELSE now]]
        /\ UNCHANGED <<is_playing, thread_handle, joinee, now, starts, last_result,
                       stop_returned>>

\* the loop that puts off a pass by the recorded maximum drift once it is over
\* the threshold
LoopTopShiftedByDrift(c) ==
    LET t == threads[c]
        expected_loop_start == t.pattern_start_time + t.loop_count * t.pattern_duration
        actual_loop_start == now
        drift == IF actual_loop_start > expected_loop_start
                 THEN actual_loop_start - expected_loop_start
                 ELSE 0
    IN  /\ t.pc = "loop_top"
        /\ threads' = [threads EXCEPT ![c] =
              IF ~is_playing
              THEN [t EXCEPT !.pc = "exit_kick"]
              ELSE [t EXCEPT !.pc = "skip_check",
                             !.loop_start = IF t.max_drift_ms > DRIFT_THRESHOLD_MS
                                            THEN expected_loop_start + t.max_drift_ms
                                            ELSE expected_loop_start,
                             !.max_drift_ms = IF drift > @ THEN drift ELSE @,
                             !.warned = drift > t.max_drift_ms /\ drift > DRIFT_THRESHOLD_MS]]
        /\ UNCHANGED <<is_playing, thread_handle, joinee, now, starts, last_result,
                       stop_returned>>

\* `while is_playing.load()`, then the expected start of this pass and its drift
LoopTop(c) ==
    LET t == threads[c]
        expected_loop_start == t.pattern_start_time + t.loop_count * t.pattern_duration
        actual_loop_start == now
        drift == IF actual_loop_start > expected_loop_start
                 THEN actual_loop_start - expected_loop_start
                 ELSE 0
    IN  /\ t.pc = "loop_top"
        /\ threads' = [threads EXCEPT ![c] =
              IF ~is_playing
              THEN [t EXCEPT !.pc = "exit_kick"]
              ELSE [t EXCEPT !.pc = "skip_check",
                             !.loop_start = expected_loop_start,
                             !.max_drift_ms = IF drift > @ THEN drift ELSE @,
                             !.warned = drift > t.max_drift_ms /\ drift > DRIFT_THRESHOLD_MS]]
        /\ UNCHANGED <<is_playing, thread_handle, joinee, now, starts, last_result,
                       stop_returned>>

\* the loop without the catch-up test: a late pass is played all at once
SkipCheckNeverSkips(c) ==
    LET t == threads[c]
    IN  /\ t.pc = "skip_check"
        /\ threads' = [threads EXCEPT ![c] =
              IF t.pattern_events = <<>>
              THEN [t EXCEPT !.pc = "loop_top", !.loop_count = t.loop_count + 1]
              ELSE [t EXCEPT !.idx = 1, !.pc = "body"]]
        /\ UNCHANGED <<is_playing, thread_handle, joinee, now, starts, last_result,
                       stop_returned>>

\* the catch-up test, on a second reading of the clock
SkipCheck(c) ==
    LET t == threads[c]
    IN  /\ t.pc = "skip_check"
        /\ threads' = [threads EXCEPT ![c] =
              IF now > t.loop_start + t.pattern_duration \/ t.pattern_events = <<>>
              THEN NextLoop(t)
              ELSE [t EXCEPT !.idx = 1, !.pc = "body"]]
        /\ UNCHANGED <<is_playing, thread_handle, joinee, now, starts, last_result,
                       stop_returned>>

\* a failed send that leaves the loop without clearing the flag
BodySendKeepsFlag(c, ok) ==
    LET t == threads[c]
        event == t.pattern_events[t.idx]
        event_time == t.loop_start + event.time_offset
        told == Send(t, Message("body", t.loop_count, t.idx, event, event_time, ok))
    IN  /\ t.pc = "body"
        /\ now >= event_time
        /\ threads' = [threads EXCEPT ![c] =
              IF ok THEN [told EXCEPT !.pc = "body_check"]
              ELSE [told EXCEPT !.pc = "exit_kick", !.failure = "fresh"]]
        /\ UNCHANGED <<is_playing, thread_handle, joinee, now, starts, last_result,
                       stop_returned>>

\* the loop that drops an event whose time has already passed
BodySendDropsLate(c, ok) ==
    LET t == threads[c]
        event == t.pattern_events[t.idx]
        event_time == t.loop_start + event.time_offset
        told == Send(t, Message("body", t.loop_count, t.idx, event, event_time, ok))
    IN  /\ t.pc = "body"
        /\ now >= event_time
        /\ IF now > event_time
           THEN /\ threads' = [threads EXCEPT ![c] =
                      IF t.idx = Len(t.pattern_events)
                      THEN NextLoop(t)
                      ELSE [t EXCEPT !.idx = t.idx + 1]]
                /\ UNCHANGED is_playing
           ELSE IF ok
           THEN /\ threads' = [threads EXCEPT ![c] = [told EXCEPT !.pc = "body_check"]]
                /\ UNCHANGED is_playing
           ELSE /\ threads' = [threads EXCEPT ![c] =
                                  NextLoop([told EXCEPT !.failure = "fresh"])]
                /\ is_playing' = FALSE
        /\ UNCHANGED <<thread_handle, joinee, now, starts, last_result, stop_returned>>

\* one pattern event: sleep until its time, send it; a failed send clears the flag
BodySend(c, ok) ==
    LET t == threads[c]
        event == t.pattern_events[t.idx]
        event_time == t.loop_start + event.time_offset
        told == Send(t, Message("body", t.loop_count, t.idx, event, event_time, ok))
    IN  /\ t.pc = "body"
        /\ now >= event_time
        /\ IF ok
           THEN /\ threads' = [threads EXCEPT ![c] = [told EXCEPT !.pc = "body_check"]]
                /\ UNCHANGED is_playing
           ELSE /\ threads' = [threads EXCEPT ![c] =
                                  NextLoop([told EXCEPT !.failure = "fresh"])]
                /\ is_playing' = FALSE
        /\ UNCHANGED <<thread_handle, joinee, now, starts, last_result, stop_returned>>

\* `if !is_playing.load() { break }` after a pattern event
BodyCheck(c) ==
    LET t == threads[c]
    IN  /\ t.pc = "body_check"
        /\ threads' = [threads EXCEPT ![c] =
              IF ~is_playing \/ t.idx = Len(t.pattern_events)
              THEN NextLoop(t)
              ELSE [t EXCEPT !.idx = t.idx + 1, !.pc = "body"]]
        /\ UNCHANGED <<is_playing, thread_handle, joinee, now, starts, last_result,
                       stop_returned>>

\* the exit without the kick's release
ExitKickOmitted(c) ==
    /\ threads[c].pc = "exit_kick"
    /\ threads' = [threads EXCEPT ![c] = [@ EXCEPT !.pc = "exit_click"]]
    /\ UNCHANGED <<is_playing, thread_handle, joinee, now, starts, last_result,
                   stop_returned>>

\* `let _ = send_note_off(KICK_NOTE)`: the result is discarded
ExitKick(c) ==
    LET t == threads[c]
    IN  /\ t.pc = "exit_kick"
        /\ threads' = [threads EXCEPT ![c] =
              [Send(t, Message("exit", 0, 0, NoteOff(0, KICK_NOTE), 0, TRUE))
                  EXCEPT !.pc = "exit_click"]]
        /\ UNCHANGED <<is_playing, thread_handle, joinee, now, starts, last_result,
                       stop_returned>>

\* `let _ = send_note_off(CLICK_NOTE)` (result discarded), and the thread ends
ExitClick(c) ==
    LET t == threads[c]
    IN  /\ t.pc = "exit_click"
        /\ threads' = [threads EXCEPT ![c] =
              Finished(Send(t, Message("exit", 0, 0, NoteOff(0, CLICK_NOTE), 0, TRUE)))]
        /\ UNCHANGED <<is_playing, thread_handle, joinee, now, starts, last_result,
                       stop_returned>>

\* the clock; its origin is the first call of start() that reaches the device
Tick(step, ticks) ==
    /\ starts > 0
    /\ now < ticks * step
    /\ now' = now + step
    /\ UNCHANGED <<is_playing, thread_handle, threads, joinee, starts, last_result,
                   stop_returned>>

\* one step of some playback thread
ThreadSteps ==
    \/ \E c \in DOMAIN threads : ThreadBegin(c) /\ PlaybackOnly
    \/ \E c \in DOMAIN threads, ok \in BOOLEAN : CountInSend(c, ok) /\ PlaybackOnly
    \/ \E c \in DOMAIN threads : CountInCheck(c) /\ PlaybackOnly
    \/ \E c \in DOMAIN threads : LoopTop(c) /\ PlaybackOnly
    \/ \E c \in DOMAIN threads : SkipCheck(c) /\ PlaybackOnly
    \/ \E c \in DOMAIN threads, ok \in BOOLEAN : BodySend(c, ok) /\ PlaybackOnly
    \/ \E c \in DOMAIN threads : BodyCheck(c) /\ PlaybackOnly
    \/ \E c \in DOMAIN threads : ExitKick(c) /\ PlaybackOnly
    \/ \E c \in DOMAIN threads : ExitClick(c) /\ PlaybackOnly

Alive(c) == threads[c].pc \notin {"spawned", "done"}

----------------------------------------------------------------------------
(* Spec: the controller calls start() and stop() in any order *)

RaceInputs == {<<CHOOSE p \in Patterns : p.steps = StepsOf({0, 4}), 300, FALSE>>}

Next ==
    \/ \E in \in RaceInputs, d \in DeviceAnswers :
          /\ is_playing \/ starts < RaceStarts
          /\ Start(in[1], in[2], in[3], d)
          /\ PlaybackOnly
    \/ Stop /\ PlaybackOnly
    \/ StopJoined /\ PlaybackOnly
    \/ ThreadSteps
    \/ Tick(RaceTickMs, RaceTicks) /\ PlaybackOnly

Spec == Init /\ [][Next]_vars

(* SpecOneAtATime: the caller starts a playback only when every earlier       *)
(* playback thread has ended (the command loop calls stop(), which joins,     *)
(* before every start() but the first)                                        *)

NextOneAtATime ==
    \/ \E p \in Patterns, tempo \in Tempos, click \in BOOLEAN, d \in DeviceAnswers :
          /\ \/ is_playing
             \/ starts < MaxStarts /\ \A c \in DOMAIN threads : threads[c].pc = "done"
          /\ Start(p, tempo, click, d)
          /\ PlaybackOnly
    \/ Stop /\ PlaybackOnly
    \/ StopJoined /\ PlaybackOnly
    \/ ThreadSteps
    \/ Tick(TickMs, MaxTicks) /\ PlaybackOnly

SpecOneAtATime == Init /\ [][NextOneAtATime]_vars

(* SpecOneAtATimeFair: a playback thread that can take a step is scheduled,   *)
(* and the clock goes on (up to the horizon of the model)                     *)

SpecOneAtATimeFair ==
    /\ Init
    /\ [][NextOneAtATime]_vars
    /\ WF_vars(ThreadSteps)
    /\ WF_vars(Tick(TickMs, MaxTicks))

(* SpecDrift: two runs of the playback thread side by side.  threads[1] and   *)
(* threads[2] are given the same pattern, tempo and click switch; they take   *)
(* their steps in turn (1 first, then 2 the step at the same place), so that  *)
(* both read the same clock and the same flag and get the same answer from    *)
(* the device.  Run 2's drift record (max_drift_ms and the warning) is set to *)
(* arbitrary values along the way.                                            *)

\* a thread record without its drift record
WithoutDrift(t) == [t EXCEPT !.max_drift_ms = 0, !.warned = FALSE]

\* the two runs are at the same place, with the same locals and the same sends
InStep == WithoutDrift(threads[1]) = WithoutDrift(threads[2])

\* whose turn it is
Turn(c) == IF c = 1 THEN InStep ELSE ~InStep

\* the device answers run 2 as it answered run 1
SameAnswer(c, ok) ==
    (c = 2 /\ threads[1].last_sent # <<>>) =>
        ok = threads[1].last_sent[Len(threads[1].last_sent)].ok

DriftValues == {0, 5, 400}

\* arbitrary values in run 2's drift record (playback.rs:107-108, 123-131)
Perturb(max_drift_ms, warned) ==
    /\ InStep
    /\ threads[2].pc \in {"loop_top", "skip_check", "body", "body_check"}
    /\ threads' = [threads EXCEPT ![2] =
          [@ EXCEPT !.max_drift_ms = max_drift_ms, !.warned = warned]]
    /\ UNCHANGED <<is_playing, thread_handle, joinee, now, starts, last_result,
                   stop_returned>>

InitDrift ==
    /\ gen = NoGen
    /\ calc = NoCalc
    /\ is_playing = TRUE
    /\ thread_handle = 0
    /\ \E p \in Patterns, tempo \in Tempos, click \in BOOLEAN :
          threads = <<NewThread(p, tempo, click), NewThread(p, tempo, click)>>
    /\ joinee = 0
    /\ now = 0
    /\ starts = 1
    /\ last_result = "Ok"
    /\ stop_returned = FALSE

NextDrift ==
    \/ \E c \in 1..2 : Turn(c) /\ ThreadBegin(c) /\ PlaybackOnly
    \/ \E c \in 1..2, ok \in BOOLEAN :
          Turn(c) /\ SameAnswer(c, ok) /\ CountInSend(c, ok) /\ PlaybackOnly
    \/ \E c \in 1..2 : Turn(c) /\ CountInCheck(c) /\ PlaybackOnly
    \/ \E c \in 1..2 : Turn(c) /\ LoopTop(c) /\ PlaybackOnly
    \/ \E c \in 1..2 : Turn(c) /\ SkipCheck(c) /\ PlaybackOnly
    \/ \E c \in 1..2, ok \in BOOLEAN :
          Turn(c) /\ SameAnswer(c, ok) /\ BodySend(c, ok) /\ PlaybackOnly
    \/ \E c \in 1..2 : Turn(c) /\ BodyCheck(c) /\ PlaybackOnly
    \/ \E c \in 1..2 : Turn(c) /\ ExitKick(c) /\ PlaybackOnly
    \/ \E c \in 1..2 : Turn(c) /\ ExitClick(c) /\ PlaybackOnly
    \/ InStep /\ Tick(TickMs, MaxTicks) /\ PlaybackOnly
    \/ InStep /\ Stop /\ PlaybackOnly
    \/ \E m \in DriftValues, w \in BOOLEAN : Perturb(m, w) /\ PlaybackOnly

SpecDrift == InitDrift /\ [][NextDrift]_vars

----------------------------------------------------------------------------
(* SpecTimeline: pattern_to_midi_events applied to a pattern, a tempo and     *)
(* the click switch                                                           *)

PatternOf(kicks) ==
    [steps |-> StepsOf(kicks), time_signature |-> FourFour,
     subdivision |-> Subdivision, num_measures |-> NumMeasures]

\* kick positions that make events meet: at 300 BPM a position lasts 50 ms, so
\* the kick at 1 starts when the click of beat 1 is released, the kick at 2 when
\* the kick at 0 is released, and the kick at 15 is released after the end
TimelineKicks == SUBSET {0, 1, 2, 4, 8, 15}

\* tempos (BPM, within the CLI's 40..300) whose grid times are whole ms
TimelineTempos == {120, 300}

TimelineInputs ==
    [fn : {"pattern_to_midi_events"},
     pattern : {PatternOf(k) : k \in TimelineKicks},
     tempo_bpm : TimelineTempos,
     include_click : BOOLEAN,
     applied : {FALSE},
     events : {<<>>}]

InitTimeline ==
    /\ InitPlayback
    /\ gen = NoGen
    /\ calc \in TimelineInputs

ApplyTimeline ==
    /\ calc.fn = "pattern_to_midi_events"
    /\ ~calc.applied
    /\ calc' = [calc EXCEPT
          !.applied = TRUE,
          !.events = pattern_to_midi_events(calc.pattern, calc.tempo_bpm,
                                            calc.include_click)]
    /\ UNCHANGED <<vars, gen>>

NextTimeline == ApplyTimeline

SpecTimeline == InitTimeline /\ [][NextTimeline]_allvars

----------------------------------------------------------------------------
(* models/pattern.rs: density, hamming_distance, validate_steps *)

\* the count of density(): `steps.iter().filter(|&&s| s).count()`
KickCount(steps) == Cardinality({i \in 1..Len(steps) : steps[i]})

\* zip() stops at the end of the shorter sequence
\* a count of the kicks of `steps` that `other` lacks
hamming_distance_one_sided(steps, other) ==
    LET n == IF Len(steps) < Len(other) THEN Len(steps) ELSE Len(other)
    IN  Cardinality({i \in 1..n : steps[i] /\ ~other[i]})

hamming_distance(steps, other) ==
    LET n == IF Len(steps) < Len(other) THEN Len(steps) ELSE Len(other)
    IN  Cardinality({i \in 1..n : steps[i] # other[i]})

\* the scans of validate_steps: a counter of consecutive steps equal to `what`,
\* reset by any other step; the value is the highest the counter gets
RECURSIVE RunScan(_, _, _, _, _)
RunScan(steps, what, i, count, highest) ==
    IF i > Len(steps) THEN highest
    ELSE IF steps[i] = what
         THEN RunScan(steps, what, i + 1, count + 1,
                      IF count + 1 > highest THEN count + 1 ELSE highest)
         ELSE RunScan(steps, what, i + 1, 0, highest)

ValidateOk == [ok |-> TRUE, err |-> ""]
ValidateErr(message) == [ok |-> FALSE, err |-> message]

\* validate_steps with the density tested before the kick on position 0
validate_steps_density_first(steps) ==
    IF ~\E i \in 1..Len(steps) : steps[i]
    THEN ValidateErr("Pattern must have at least one kick")
    ELSE IF 1000 * KickCount(steps) < 125 * Len(steps)
            \/ 10 * KickCount(steps) > 5 * Len(steps)
    THEN ValidateErr("Pattern density out of range [0.125, 0.5]")
    ELSE IF ~steps[1]
    THEN ValidateErr("Pattern must have kick on beat 1 (position 0)")
    ELSE IF RunScan(steps, TRUE, 1, 0, 0) > 2
    THEN ValidateErr("Pattern must not have more than 2 consecutive kicks")
    ELSE IF ~(RunScan(steps, FALSE, 1, 0, 0) >= 2)
    THEN ValidateErr("Pattern must have at least one rest of 2+ positions")
    ELSE IF RunScan(steps, FALSE, 1, 0, 0) > 8
    THEN ValidateErr("Pattern must not have more than 8 consecutive rests")
    ELSE ValidateOk

\* Pattern::validate_steps; density = kicks / len is compared as a fraction
\* (density < 0.125, density > 0.5)
validate_steps(steps) ==
    IF ~\E i \in 1..Len(steps) : steps[i]
    THEN ValidateErr("Pattern must have at least one kick")
    ELSE IF ~steps[1]
    THEN ValidateErr("Pattern must have kick on beat 1 (position 0)")
    ELSE IF 1000 * KickCount(steps) < 125 * Len(steps)
            \/ 10 * KickCount(steps) > 5 * Len(steps)
    THEN ValidateErr("Pattern density out of range [0.125, 0.5]")
    ELSE IF RunScan(steps, TRUE, 1, 0, 0) > 2
    THEN ValidateErr("Pattern must not have more than 2 consecutive kicks")
    ELSE IF ~(RunScan(steps, FALSE, 1, 0, 0) >= 2)
    THEN ValidateErr("Pattern must have at least one rest of 2+ positions")
    ELSE IF RunScan(steps, FALSE, 1, 0, 0) > 8
    THEN ValidateErr("Pattern must not have more than 8 consecutive rests")
    ELSE ValidateOk

(* SpecValidate: validate_steps applied to a sequence of steps *)

ValidateInputs ==
    [fn : {"validate_steps"},
     steps : UNION {[1..n -> BOOLEAN] : n \in 0..MaxStepsLen},
     applied : {FALSE},
     result : {ValidateOk}]

InitValidate ==
    /\ InitPlayback
    /\ gen = NoGen
    /\ calc \in ValidateInputs

ApplyValidate ==
    /\ calc.fn = "validate_steps"
    /\ ~calc.applied
    /\ calc' = [calc EXCEPT !.applied = TRUE, !.result = validate_steps(calc.steps)]
    /\ UNCHANGED <<vars, gen>>

NextValidate == ApplyValidate

SpecValidate == InitValidate /\ [][NextValidate]_allvars

(* SpecHamming: hamming_distance applied to two patterns, in both orders and  *)
(* to a pattern and itself                                                    *)

\* every pair of sequences of one length up to MaxHammingLen, and the pairs of
\* 16-step patterns with kicks on the beats and on position 15
HammingKicks == SUBSET {0, 4, 8, 12, 15}

HammingInputs ==
    [fn : {"hamming_distance"},
     a : UNION {[1..n -> BOOLEAN] : n \in 0..MaxHammingLen} \cup
            {StepsOf(k) : k \in HammingKicks},
     b : UNION {[1..n -> BOOLEAN] : n \in 0..MaxHammingLen} \cup
            {StepsOf(k) : k \in HammingKicks},
     applied : {FALSE},
     ab : {0}, ba : {0}, aa : {0}]

InitHamming ==
    /\ InitPlayback
    /\ gen = NoGen
    /\ calc \in HammingInputs

ApplyHamming ==
    /\ calc.fn = "hamming_distance"
    /\ ~calc.applied
    /\ calc' = [calc EXCEPT !.applied = TRUE,
                            !.ab = hamming_distance(calc.a, calc.b),
                            !.ba = hamming_distance(calc.b, calc.a),
                            !.aa = hamming_distance(calc.a, calc.a)]
    /\ UNCHANGED <<vars, gen>>

NextHamming == ApplyHamming

SpecHamming == InitHamming /\ [][NextHamming]_allvars

----------------------------------------------------------------------------
(* models/beat_grid.rs, engine/midi.rs: the grid's size and the loop's
   duration, applied to one grid and one tempo *)

\* TimeSignature::four_four .. seven_eight
TimeSignatures ==
    { [numerator |-> 4, denominator |-> 4], [numerator |-> 3, denominator |-> 4],
      [numerator |-> 6, denominator |-> 8], [numerator |-> 2, denominator |-> 4],
      [numerator |-> 5, denominator |-> 4], [numerator |-> 7, denominator |-> 8] }

\* quarter, eighth and sixteenth note grids
Subdivisions == {4, 8, Subdivision}

\* tempos whose position length is a whole number of milliseconds
GridTempos == {60, 120, 300}

GridInputs ==
    [fn : {"beat_grid"},
     time_signature : TimeSignatures,
     subdivision : Subdivisions,
     num_measures : 1..MaxMeasures,
     tempo_bpm : GridTempos,
     applied : {FALSE},
     total_positions : {0}, beat_positions : {<<>>},
     seconds_per_position : {0}, pattern_duration : {0}]

InitGrid ==
    /\ InitPlayback
    /\ gen = NoGen
    /\ calc \in GridInputs

ApplyGrid ==
    /\ calc.fn = "beat_grid"
    /\ ~calc.applied
    /\ LET pattern == [steps |-> <<>>, time_signature |-> calc.time_signature,
                       subdivision |-> calc.subdivision,
                       num_measures |-> calc.num_measures]
       IN  calc' = [calc EXCEPT
                      !.applied = TRUE,
                      !.total_positions = total_positions(GridOf(pattern)),
                      !.beat_positions = beat_positions(GridOf(pattern)),
                      !.seconds_per_position =
                          seconds_per_position(GridOf(pattern), calc.tempo_bpm),
                      !.pattern_duration = pattern_duration(pattern, calc.tempo_bpm)]
    /\ UNCHANGED <<vars, gen>>

NextGrid == ApplyGrid

SpecGrid == InitGrid /\ [][NextGrid]_allvars

----------------------------------------------------------------------------

(* models/session.rs: the pattern history *)

\* `if self.pattern_history.len() >= 20`
HistoryCapacity == 20

\* add_to_history that drops the newest entry of a full history
add_to_history_pop_back(pattern_history, pattern) ==
    IF Len(pattern_history) >= HistoryCapacity
    THEN Append(SubSeq(pattern_history, 1, Len(pattern_history) - 1), pattern)
    ELSE Append(pattern_history, pattern)

\* PracticeSession::add_to_history: pop_front() at capacity, then push_back()
add_to_history(pattern_history, pattern) ==
    IF Len(pattern_history) >= HistoryCapacity
    THEN Append(Tail(pattern_history), pattern)
    ELSE Append(pattern_history, pattern)

(* SpecHistory: add_to_history called again and again on a new session *)

HistoryPatterns == <<PatternOf({0, 8}), PatternOf({0, 4, 8})>>

\* PracticeSession::new: an empty history; `added` is every pattern handed to
\* add_to_history so far, oldest first
InitHistory ==
    /\ InitPlayback
    /\ gen = NoGen
    /\ calc = [fn |-> "add_to_history", pattern_history |-> <<>>, added |-> <<>>]

AddToHistory(pattern) ==
    /\ calc.fn = "add_to_history"
    /\ Len(calc.added) < MaxAdds
    /\ pattern = HistoryPatterns[2] =>
          Cardinality({i \in 1..Len(calc.added) : calc.added[i] = pattern}) < MaxOther
    /\ calc' = [calc EXCEPT
          !.pattern_history = add_to_history(calc.pattern_history, pattern),
          !.added = Append(calc.added, pattern)]
    /\ UNCHANGED <<vars, gen>>

NextHistory == \E i \in 1..2 : AddToHistory(HistoryPatterns[i])

SpecHistory == InitHistory /\ [][NextHistory]_allvars

----------------------------------------------------------------------------
(* generator/unique.rs, generator/weighted.rs *)

\* is_pattern_unique answering from the first pattern of the history alone
is_pattern_unique_first_only(steps, history, min_distance) ==
    IF history = <<>> THEN TRUE
    ELSE ~(hamming_distance(steps, history[1]) < min_distance)

\* is_pattern_unique that also rejects a pattern at exactly min_distance
is_pattern_unique_strict(steps, history, min_distance) ==
    IF history = <<>> THEN TRUE
    ELSE \A k \in 1..Len(history) :
            ~(hamming_distance(steps, history[k]) <= min_distance)

is_pattern_unique(steps, history, min_distance) ==
    IF history = <<>> THEN TRUE
    ELSE \A k \in 1..Len(history) :
            ~(hamming_distance(steps, history[k]) < min_distance)

ComplexityLevels == {"Simple", "Medium", "Complex"}

\* base_weights_4_4, in twentieths
base_weights_4_4 == <<20, 4, 6, 4, 8, 4, 6, 4, 14, 4, 6, 4, 8, 4, 6, 4>>

(* the base weights of the generator beside the grid's position strengths,
   at one position of one grid *)

\* the six signatures with a table of their own, and one without
StrengthSignatures == TimeSignatures \cup {[numerator |-> 9, denominator |-> 8]}

\* the positions base_weights_4_4 has a weight for
WeightPositions == {k - 1 : k \in DOMAIN base_weights_4_4}

WeightInputs ==
    [fn : {"base_weights"},
     time_signature : StrengthSignatures,
     subdivision : Subdivisions,
     idx : WeightPositions,
     applied : {FALSE},
     base_weight : {0}, position_strength : {0}]

InitWeights ==
    /\ InitPlayback
    /\ gen = NoGen
    /\ calc \in WeightInputs

ApplyWeights ==
    /\ calc.fn = "base_weights"
    /\ ~calc.applied
    /\ LET grid == [time_signature |-> calc.time_signature,
                    subdivision |-> calc.subdivision,
                    num_measures |-> NumMeasures]
       IN  calc' = [calc EXCEPT
                      !.applied = TRUE,
                      !.base_weight = base_weights_4_4[calc.idx + 1],
                      !.position_strength = position_strength(grid, calc.idx)]
    /\ UNCHANGED <<vars, gen>>

NextWeights == ApplyWeights

SpecWeights == InitWeights /\ [][NextWeights]_allvars

adjust_weights_for_complexity(base_weights, complexity) ==
    [k \in 1..Len(base_weights) |->
        CASE complexity = "Simple" ->
                IF (k - 1) % 4 = 0 THEN base_weights[k] * 2 ELSE base_weights[k] \div 2
          [] complexity = "Medium" -> base_weights[k]
          [] complexity = "Complex" ->
                IF (k - 1) % 4 = 0 THEN base_weights[k] ELSE (base_weights[k] * 3) \div 2]

target_kicks_for_complexity(complexity) ==
    CASE complexity = "Simple" -> <<2, 4>>
      [] complexity = "Medium" -> <<4, 6>>
      [] complexity = "Complex" -> <<6, 8>>

\* the loops: `for _ in 0..10` per tier, `for _ in 0..100` candidates per cycle,
\* `attempts < 100` draws per candidate, `for _ in 0..1000` candidates in generate
CyclesPerTier == 10
CandidatesPerCycle == 100
DrawsPerCandidate == 100
GenerateCandidates == 1000

Supported(time_signature) ==
    ~(time_signature.numerator # 4 \/ time_signature.denominator # 4)

UnsupportedMessage == "Only 4/4 time signature is currently supported"
ExhaustedMessage ==
    "Failed to generate unique pattern after 30 attempts with relaxed constraints"
GenerateExhaustedMessage ==
    "Failed to generate valid unique pattern after 1000 attempts"

\* the positions the draws of the model fall on (WeightedIndex can give every
\* position of positive weight)
DrawnPositions == {0, 1, 7, 8, 9}

\* what the sampling loop can leave in `steps`: position 0 and the positions
\* drawn, target_kicks kicks, or fewer when the draws run out on positions
\* already set
CanBeDrawn(K, complexity) ==
    LET weights == adjust_weights_for_complexity(base_weights_4_4, complexity)
        target == target_kicks_for_complexity(complexity)
        target_kicks == {n \in target[1]..target[2] : Cardinality(K) <= n}
    IN  /\ 0 \in K
        /\ \A i \in K \ {0} : weights[i + 1] > 0
        /\ target_kicks # {}
        /\ Cardinality(K) - 1 <= DrawsPerCandidate

(* the sampling loop of one candidate (weighted.rs 229-250), draw by draw *)

\* the positions the draws of the sampling loop fall on
SampledPositions == DrawnPositions \cup {4, 12, 15}

\* `let mut steps = vec![false; 16]; steps[0] = true;`, the target drawn in
\* min_kicks..max_kicks, `let mut attempts = 0`
SamplingInputs ==
    UNION { [fn : {"sampling"},
             complexity : {c},
             target_kicks : target_kicks_for_complexity(c)[1] ..
                            target_kicks_for_complexity(c)[2],
             steps : {StepsOf({0})},
             attempts : {0},
             pc : {"while"}] : c \in ComplexityLevels }

InitSampling ==
    /\ InitPlayback
    /\ gen = NoGen
    /\ calc \in SamplingInputs

\* a sampling loop that goes on to the cap of draws whatever the count
SampleDrawIgnoresTarget(idx) ==
    /\ calc.fn = "sampling"
    /\ calc.pc = "while"
    /\ calc.attempts < DrawsPerCandidate
    /\ calc' = [calc EXCEPT !.steps[idx + 1] = TRUE, !.attempts = @ + 1]
    /\ UNCHANGED <<vars, gen>>

\* one pass of `while count < target_kicks && attempts < 100`
SampleDraw(idx) ==
    /\ calc.fn = "sampling"
    /\ calc.pc = "while"
    /\ KickCount(calc.steps) < calc.target_kicks
    /\ calc.attempts < DrawsPerCandidate
    /\ calc' = [calc EXCEPT !.steps[idx + 1] = TRUE, !.attempts = @ + 1]
    /\ UNCHANGED <<vars, gen>>

\* the condition of the `while` is false: the candidate is built
SampleEnd ==
    /\ calc.fn = "sampling"
    /\ calc.pc = "while"
    /\ ~(KickCount(calc.steps) < calc.target_kicks /\ calc.attempts < DrawsPerCandidate)
    /\ calc' = [calc EXCEPT !.pc = "built"]
    /\ UNCHANGED <<vars, gen>>

NextSampling ==
    \/ \E idx \in SampledPositions : SampleDraw(idx)
    \/ SampleEnd

SpecSampling == InitSampling /\ [][NextSampling]_allvars

ThreeFour == [numerator |-> 3, denominator |-> 4]

\* histories: empty; one pattern; two patterns that leave tier 2 at best; four
\* that leave tier 1 at best; all valid candidates but {0,7}; all of them
Histories ==
    { <<>>,
      <<StepsOf({0, 8})>>,
      <<StepsOf({0, 8}), StepsOf({0, 1, 7, 9})>>,
      <<StepsOf({0, 8}), StepsOf({0, 7, 9}), StepsOf({0, 1, 8}), StepsOf({0, 1, 7, 9})>>,
      <<StepsOf({0, 8}), StepsOf({0, 9}), StepsOf({0, 1, 7}), StepsOf({0, 1, 8}),
        StepsOf({0, 1, 9}), StepsOf({0, 7, 8}), StepsOf({0, 7, 9}), StepsOf({0, 8, 9}),
        StepsOf({0, 1, 7, 8}), StepsOf({0, 1, 7, 9}), StepsOf({0, 1, 8, 9})>>,
      <<StepsOf({0, 7}), StepsOf({0, 8}), StepsOf({0, 9}), StepsOf({0, 1, 7}),
        StepsOf({0, 1, 8}), StepsOf({0, 1, 9}), StepsOf({0, 7, 8}), StepsOf({0, 7, 9}),
        StepsOf({0, 8, 9}), StepsOf({0, 1, 7, 8}), StepsOf({0, 1, 7, 9}),
        StepsOf({0, 1, 8, 9})>> }

NoResult == [kind |-> "None"]
OkResult(steps, tier) == [kind |-> "Ok", steps |-> steps, tier |-> tier]
ErrResult(message) == [kind |-> "Err", message |-> message]

\* the state of a call of generate_unique at its entry
NewCall(op, time_signature, complexity, history) ==
    [pc |-> "cycle", op |-> op,
     time_signature |-> time_signature, complexity |-> complexity, history |-> history,
     min_distance |-> 3,      \* the tier of the current cycle
     cycle |-> 0,             \* the `for _ in 0..10` of the tier
     attempt |-> 0,           \* the `for _ in 0..100` (0..1000) of candidates
     result |-> NoResult,
     \* history, for stating properties:
     failed |-> [d \in 1..3 |-> 0],   \* cycles that returned Err, per tier
     sampled |-> FALSE]               \* a candidate has been built

\* the call returns: its loop counters are gone
Returned(g, result) ==
    [g EXCEPT !.pc = "returned", !.result = result, !.cycle = 0, !.attempt = 0]

\* generate_unique(): entry
GenerateUnique(time_signature, complexity, history) ==
    /\ gen.pc = "idle"
    /\ gen' = NewCall("generate_unique", time_signature, complexity, history)
    /\ UNCHANGED <<vars, calc>>

\* the state of a call of generate at the top of its candidate loop, or at its
\* return for a signature other than 4/4
NewGenerate(time_signature, complexity, history) ==
    IF Supported(time_signature)
    THEN [NewCall("generate", time_signature, complexity, history)
             EXCEPT !.pc = "candidate"]
    ELSE Returned(NewCall("generate", time_signature, complexity, history),
                  ErrResult(UnsupportedMessage))

\* generate(): entry, with its own test of the signature
Generate(time_signature, complexity, history) ==
    /\ gen.pc = "idle"
    /\ gen' = NewGenerate(time_signature, complexity, history)
    /\ UNCHANGED <<vars, calc>>

\* the escalation that jumps from tier 3 to tier 1
CycleFailedSkipsTier(g) ==
    LET f == [g EXCEPT !.failed[g.min_distance] = @ + 1, !.attempt = 0]
    IN  IF g.cycle + 1 < CyclesPerTier
        THEN [f EXCEPT !.pc = "cycle", !.cycle = @ + 1]
        ELSE IF g.min_distance > 1
        THEN [f EXCEPT !.pc = "cycle", !.cycle = 0, !.min_distance = 1]
        ELSE Returned(f, ErrResult(ExhaustedMessage))

\* generate_unique: try_generate_with_distance returned Err; the next cycle of
\* the tier, the next tier, or the final Err
CycleFailed(g) ==
    LET f == [g EXCEPT !.failed[g.min_distance] = @ + 1, !.attempt = 0]
    IN  IF g.cycle + 1 < CyclesPerTier
        THEN [f EXCEPT !.pc = "cycle", !.cycle = @ + 1]
        ELSE IF g.min_distance > 1
        THEN [f EXCEPT !.pc = "cycle", !.cycle = 0, !.min_distance = @ - 1]
        ELSE Returned(f, ErrResult(ExhaustedMessage))

\* try_generate_with_distance: entry (the test of the signature)
TryBegin ==
    /\ gen.pc = "cycle"
    /\ gen' = IF Supported(gen.time_signature)
              THEN [gen EXCEPT !.pc = "candidate", !.attempt = 0]
              ELSE CycleFailed(gen)
    /\ UNCHANGED <<vars, calc>>

\* a candidate loop that starts over when its candidates run out
CandidateFailedStartsOver(g) ==
    IF g.op = "generate"
    THEN IF g.attempt + 1 < GenerateCandidates
         THEN [g EXCEPT !.attempt = @ + 1]
         ELSE Returned(g, ErrResult(GenerateExhaustedMessage))
    ELSE IF g.attempt + 1 < CandidatesPerCycle
         THEN [g EXCEPT !.attempt = @ + 1]
         ELSE [g EXCEPT !.attempt = 0]

\* a candidate was discarded: the next one, or the end of the loop
CandidateFailed(g) ==
    IF g.op = "generate"
    THEN IF g.attempt + 1 < GenerateCandidates
         THEN [g EXCEPT !.attempt = @ + 1]
         ELSE Returned(g, ErrResult(GenerateExhaustedMessage))
    ELSE IF g.attempt + 1 < CandidatesPerCycle
         THEN [g EXCEPT !.attempt = @ + 1]
         ELSE CycleFailed(g)

\* The verdicts of the candidate loop over the candidates and the histories of
\* the model, each computed once: what the sampling loop can build, what
\* validate_steps accepts, what is_pattern_unique accepts
DrawableCandidates ==
    {p : p \in {q \in ComplexityLevels \X SUBSET DrawnPositions :
                    CanBeDrawn(q[2], q[1])}}
\* a candidate loop that skips validate_steps
CandidatesUnvalidated == SUBSET DrawnPositions

ValidCandidates ==
    {K : K \in {k \in SUBSET DrawnPositions : validate_steps(StepsOf(k)).ok}}
UniqueCandidates ==
    {p : p \in {q \in (SUBSET DrawnPositions) \X Histories \X (1..3) :
                    is_pattern_unique(StepsOf(q[1]), q[2], q[3])}}

\* the call after one pass of the candidate loop that built the pattern of
\* kicks K: validate it, test it against the history, return it or go on
AfterCandidate(K) ==
    LET g == [gen EXCEPT !.sampled = TRUE]
        min_distance == IF gen.op = "generate" THEN 3 ELSE gen.min_distance
    IN  IF K \notin ValidCandidates
        THEN CandidateFailed(g)
        ELSE IF <<K, gen.history, min_distance>> \in UniqueCandidates
        THEN Returned(g, OkResult(StepsOf(K), min_distance))
        ELSE CandidateFailed(g)

\* one pass of the candidate loop: draw the target and the positions, build the
\* pattern, validate it, test it against the history
Candidate(K) ==
    /\ gen.pc = "candidate"
    /\ <<gen.complexity, K>> \in DrawableCandidates
    /\ gen' = AfterCandidate(K)
    /\ UNCHANGED <<vars, calc>>

\* the caller repeats a call that failed, with the same arguments
CallAgain ==
    /\ gen.pc = "returned"
    /\ gen.result.kind = "Err"
    /\ gen' = IF gen.op = "generate"
              THEN NewGenerate(gen.time_signature, gen.complexity, gen.history)
              ELSE NewCall(gen.op, gen.time_signature, gen.complexity, gen.history)
    /\ UNCHANGED <<vars, calc>>

InitGenerator ==
    /\ InitPlayback
    /\ gen = NoGen
    /\ calc = NoCalc

NextGenerator ==
    \/ \E ts \in {FourFour, ThreeFour}, c \in ComplexityLevels, h \in Histories :
          GenerateUnique(ts, c, h)
    \/ \E ts \in {FourFour, ThreeFour}, c \in ComplexityLevels, h \in Histories :
          Generate(ts, c, h)
    \/ TryBegin
    \/ \E K \in SUBSET DrawnPositions : Candidate(K)
    \/ CallAgain

SpecGenerator == InitGenerator /\ [][NextGenerator]_allvars

(* SpecGeneratorFair: the random draws are fair.  Every candidate the sampling *)
(* loop can build has a positive probability at every pass (all weights are    *)
(* positive), so a candidate that would be accepted, and that can be drawn in  *)
(* infinitely many passes, is drawn in one of them.                            *)

AcceptedDraw ==
    \E K \in SUBSET DrawnPositions :
        /\ Candidate(K)
        /\ gen'.pc = "returned"
        /\ gen'.result.kind = "Ok"

SpecGeneratorFair ==
    /\ InitGenerator
    /\ [][NextGenerator]_allvars
    /\ WF_allvars(NextGenerator)
    /\ SF_allvars(AcceptedDraw)

(* SpecGeneratorRuns: the call keeps executing (nothing in it blocks), whatever *)
(* the draws give.                                                             *)
SpecGeneratorRuns ==
    /\ InitGenerator
    /\ [][NextGenerator]_allvars
    /\ WF_allvars(NextGenerator)

----------------------------------------------------------------------------
(* models/session.rs, main.rs, cli/commands.rs: the session and its commands *)

\* current_pattern: None
NoPattern == [steps |-> <<>>]

\* PracticeSession::new
NewSession(tempo_bpm, complexity_level, time_signature) ==
    [current_pattern |-> NoPattern,
     pattern_history |-> <<>>,
     tempo_bpm |-> tempo_bpm,
     complexity_level |-> complexity_level,
     time_signature |-> time_signature,
     pattern_revealed |-> FALSE,
     patterns_generated |-> 0]

KicksOf(steps) == {i - 1 : i \in {j \in DOMAIN steps : steps[j]}}

\* main.rs run(): the first pattern
first_pattern_generated(session, pattern) ==
    [session EXCEPT !.patterns_generated = 1,
                    !.pattern_history = add_to_history(@, pattern),
                    !.current_pattern = pattern]

\* handle_new_pattern, Ok branch, with the counter left as it is
new_pattern_generated_uncounted(session, pattern) ==
    [session EXCEPT !.pattern_history = add_to_history(@, pattern),
                    !.current_pattern = pattern,
                    !.pattern_revealed = FALSE]

\* handle_new_pattern, Ok branch
new_pattern_generated(session, pattern) ==
    [session EXCEPT !.patterns_generated = @ + 1,
                    !.pattern_history = add_to_history(@, pattern),
                    !.current_pattern = pattern,
                    !.pattern_revealed = FALSE]

\* handle_new_pattern, Err branch, forgetting that the pattern was revealed
new_pattern_failed_hides(session) == [session EXCEPT !.pattern_revealed = FALSE]

\* handle_new_pattern, Err branch: the session is not touched
new_pattern_failed(session) == session

\* handle_reveal
reveal(session) ==
    IF session.current_pattern # NoPattern
    THEN [session EXCEPT !.pattern_revealed = TRUE]
    ELSE session

\* handle_tempo_change: the input is empty, a number or something else;
\* `Ok(tempo) if tempo >= 40 && tempo <= 300`
tempo_change(session, input) ==
    IF input.kind = "number" /\ input.tempo >= 40 /\ input.tempo <= 300
    THEN [session EXCEPT !.tempo_bpm = input.tempo]
    ELSE session

\* handle_complexity_change, with the key pressed at its prompt ("none": the
\* prompt timed out)
complexity_change(session, key) ==
    CASE key = "1" -> [session EXCEPT !.complexity_level = "Simple"]
      [] key = "2" -> [session EXCEPT !.complexity_level = "Medium"]
      [] key = "3" -> [session EXCEPT !.complexity_level = "Complex"]
      [] OTHER -> session

(* SpecSession: the program from main to quit, the playback loop reduced to   *)
(* what it was last started with                                              *)

\* valid patterns of two to four kicks, in the order the draws of the model
\* bring them up
SessionPool ==
    << {0, 8}, {0, 4, 8}, {0, 7}, {0, 4, 10}, {0, 9}, {0, 4, 12}, {0, 2, 8},
       {0, 6, 8}, {0, 2, 10}, {0, 6, 10}, {0, 6, 12}, {0, 4, 8, 12}, {0, 2, 8, 12},
       {0, 4, 8, 14}, {0, 2, 8, 14}, {0, 6, 8, 12}, {0, 4, 10, 12}, {0, 4, 10, 14},
       {0, 2, 10, 12}, {0, 2, 10, 14}, {0, 6, 10, 14}, {0, 6, 12, 14} >>

\* the patterns of the pool the sampling loop can build at each level and
\* validate_steps accepts, computed once
SessionCandidates ==
    {p : p \in {q \in ComplexityLevels \X {SessionPool[i] : i \in DOMAIN SessionPool} :
                    CanBeDrawn(q[2], q[1]) /\ validate_steps(StepsOf(q[2])).ok}}

\* a candidate loop of the session that returns its pattern whatever the history
CanReturnUntested(K, complexity, history, min_distance) ==
    <<complexity, K>> \in SessionCandidates

\* what a pass of the candidate loop can return: a pattern the sampling loop
\* can build, that validate_steps accepts and that is at min_distance from the
\* history
CanReturn(K, complexity, history, min_distance) ==
    /\ <<complexity, K>> \in SessionCandidates
    /\ is_pattern_unique(StepsOf(K), [k \in DOMAIN history |-> history[k].steps],
                         min_distance)

PoolAt(i) == SessionPool[((i - 1) % Len(SessionPool)) + 1]

\* the patterns the candidate loop comes up with in a session: the next two of
\* the pool, the current pattern again, the oldest of the history again
SessionDraws(session) ==
    {PoolAt(session.patterns_generated + 1), PoolAt(session.patterns_generated + 2)}
    \cup {KicksOf(session.current_pattern.steps)}
    \cup (IF session.pattern_history = <<>> THEN {}
          ELSE {KicksOf(session.pattern_history[1].steps)})

NotPlaying == [playing |-> FALSE]
Playing(pattern, tempo_bpm) == [playing |-> TRUE, pattern |-> pattern, tempo_bpm |-> tempo_bpm]

InitSession ==
    /\ InitPlayback
    /\ gen = NoGen
    /\ \E a \in [tempo_bpm : {120}, complexity : {"Simple", "Medium"},
                 time_signature : {FourFour, ThreeFour}] :
          calc = [fn |-> "session", pc |-> "main",
                  session |-> NewSession(a.tempo_bpm, a.complexity, a.time_signature),
                  playback |-> NotPlaying,
                  command |-> "none"]     \* the last command handled

\* start() of the reduced playback loop: Ok and playing, or an error that ends
\* the program
Started(c, pattern, device) ==
    IF device = "ok"
    THEN [c EXCEPT !.pc = "input", !.playback = Playing(pattern, c.session.tempo_bpm)]
    ELSE [c EXCEPT !.pc = "ended", !.playback = NotPlaying]

\* main.rs run(): generate, the session, CommandLoop::run up to its input loop
MainOk(K, device) ==
    /\ calc.fn = "session"
    /\ calc.pc = "main"
    /\ Supported(calc.session.time_signature)
    /\ CanReturn(K, calc.session.complexity_level, <<>>, 3)
    /\ calc' = Started([calc EXCEPT !.session = first_pattern_generated(@, PatternOf(K)),
                                    !.command = "main"],
                       PatternOf(K), device)
    /\ UNCHANGED <<vars, gen>>

\* main.rs run(): generate returned Err
MainErr ==
    /\ calc.fn = "session"
    /\ calc.pc = "main"
    /\ calc' = [calc EXCEPT !.pc = "ended", !.command = "main"]
    /\ UNCHANGED <<vars, gen>>

HandleReveal ==
    /\ calc.fn = "session"
    /\ calc.pc = "input"
    /\ calc' = [calc EXCEPT !.session = reveal(@), !.command = "reveal"]
    /\ UNCHANGED <<vars, gen>>

\* handle_new_pattern: stop(), generate_unique returned Ok, start()
HandleNewPatternOk(K, min_distance, device) ==
    /\ calc.fn = "session"
    /\ calc.pc = "input"
    /\ calc.session.patterns_generated < MaxGenerated
    /\ Supported(calc.session.time_signature)
    /\ CanReturn(K, calc.session.complexity_level, calc.session.pattern_history,
                 min_distance)
    /\ calc' = Started([calc EXCEPT !.session = new_pattern_generated(@, PatternOf(K)),
                                    !.command = "new_pattern"],
                       PatternOf(K), device)
    /\ UNCHANGED <<vars, gen>>

\* handle_new_pattern: stop(), generate_unique returned Err, start()
HandleNewPatternErr(device) ==
    /\ calc.fn = "session"
    /\ calc.pc = "input"
    /\ calc' = Started([calc EXCEPT !.session = new_pattern_failed(@),
                                    !.command = "new_pattern_failed"],
                       calc.session.current_pattern, device)
    /\ UNCHANGED <<vars, gen>>

\* handle_tempo_change: stop(), the prompt, start()
HandleTempoChange(input, device) ==
    /\ calc.fn = "session"
    /\ calc.pc = "input"
    /\ calc' = Started([calc EXCEPT !.session = tempo_change(@, input), !.command = "tempo"],
                       calc.session.current_pattern, device)
    /\ UNCHANGED <<vars, gen>>

HandleComplexityChange(key) ==
    /\ calc.fn = "session"
    /\ calc.pc = "input"
    /\ calc' = [calc EXCEPT !.session = complexity_change(@, key),
                            !.command = "complexity"]
    /\ UNCHANGED <<vars, gen>>

\* handle_quit: stop(), the summary, the end of the input loop
HandleQuit ==
    /\ calc.fn = "session"
    /\ calc.pc = "input"
    /\ calc' = [calc EXCEPT !.pc = "ended", !.playback = NotPlaying, !.command = "quit"]
    /\ UNCHANGED <<vars, gen>>

NextSession ==
    \/ \E K \in {PoolAt(1), PoolAt(2)}, d \in DeviceAnswers : MainOk(K, d)
    \/ MainErr
    \/ HandleReveal
    \/ \E K \in SessionDraws(calc.session), m \in 1..3, d \in DeviceAnswers :
          HandleNewPatternOk(K, m, d)
    \/ \E d \in DeviceAnswers : HandleNewPatternErr(d)
    \/ \E input \in {[kind |-> "empty"], [kind |-> "invalid"]} \cup
                    {[kind |-> "number", tempo |-> n] : n \in {39, 40, 300, 301}},
          d \in DeviceAnswers : HandleTempoChange(input, d)
    \/ \E key \in {"1", "2", "3", "x", "none"} : HandleComplexityChange(key)
    \/ HandleQuit

SpecSession == InitSession /\ [][NextSession]_allvars

(* SpecCommands: the command loop over the playback loop itself: its thread   *)
(* runs, fails and is joined while the commands arrive                         *)

\* CommandLoop::new(session), with the session main.rs has set up
InitCommands ==
    /\ InitPlayback
    /\ gen = NoGen
    /\ \E K \in {PoolAt(1), PoolAt(2)}, tempo \in Tempos :
          calc = [fn |-> "commands", pc |-> "run", command |-> "none",
                  session |-> first_pattern_generated(
                                  NewSession(tempo, "Simple", FourFour), PatternOf(K))]

\* CommandLoop::run: start(), then the input loop, or the error returned
CommandsRun(device) ==
    /\ calc.fn = "commands"
    /\ calc.pc = "run"
    /\ Start(calc.session.current_pattern, calc.session.tempo_bpm, TRUE, device)
    /\ calc' = [calc EXCEPT !.pc = IF last_result' = "Ok" THEN "input" ELSE "ended",
                            !.command = "run"]
    /\ UNCHANGED gen

\* handle_reveal, handle_complexity_change: the session changes, the playback
\* loop is not called
CommandsKey(command, after) ==
    /\ calc.fn = "commands"
    /\ calc.pc = "input"
    /\ calc' = [calc EXCEPT !.command = command, !.session = after]
    /\ UNCHANGED <<vars, gen>>

\* a handler that goes on to its work without calling stop()
CommandsStopSkipped(command) ==
    /\ calc.fn = "commands"
    /\ calc.pc = "input"
    /\ command = "quit" \/ starts < MaxStarts
    /\ calc' = [calc EXCEPT !.pc = "stopping", !.command = command]
    /\ UNCHANGED <<vars, gen>>

\* handle_new_pattern, handle_tempo_change, handle_quit: the call of stop()
CommandsStop(command) ==
    /\ calc.fn = "commands"
    /\ calc.pc = "input"
    /\ command = "quit" \/ starts < MaxStarts
    /\ Stop
    /\ calc' = [calc EXCEPT !.pc = "stopping", !.command = command]
    /\ UNCHANGED gen

\* handle_new_pattern, handle_tempo_change after stop() has returned: the
\* session as the handler leaves it, then start() with its pattern and tempo
CommandsRestart(after, device) ==
    /\ calc.fn = "commands"
    /\ calc.pc = "stopping"
    /\ calc.command # "quit"
    /\ joinee = 0
    /\ Start(after.current_pattern, after.tempo_bpm, TRUE, device)
    /\ calc' = [calc EXCEPT !.pc = IF last_result' = "Ok" THEN "input" ELSE "ended",
                            !.session = after]
    /\ UNCHANGED gen

\* handle_quit after stop() has returned: the input loop ends
CommandsQuit ==
    /\ calc.fn = "commands"
    /\ calc.pc = "stopping"
    /\ calc.command = "quit"
    /\ joinee = 0
    /\ calc' = [calc EXCEPT !.pc = "ended"]
    /\ UNCHANGED <<vars, gen>>

NextCommands ==
    \/ \E d \in DeviceAnswers : CommandsRun(d)
    \/ CommandsKey("reveal", reveal(calc.session))
    \/ \E key \in {"3", "x"} :
          CommandsKey("complexity", complexity_change(calc.session, key))
    \/ \E command \in {"new_pattern", "tempo", "quit"} : CommandsStop(command)
    \/ StopJoined /\ PlaybackOnly
    \/ \E K \in SessionDraws(calc.session), m \in 1..3, d \in DeviceAnswers :
          /\ calc.command = "new_pattern"
          /\ CanReturn(K, calc.session.complexity_level,
                       calc.session.pattern_history, m)
          /\ CommandsRestart(new_pattern_generated(calc.session, PatternOf(K)), d)
    \/ \E d \in DeviceAnswers :
          /\ calc.command = "new_pattern"
          /\ CommandsRestart(new_pattern_failed(calc.session), d)
    \/ \E input \in {[kind |-> "empty"], [kind |-> "number", tempo |-> 301]},
          d \in DeviceAnswers :
          /\ calc.command = "tempo"
          /\ CommandsRestart(tempo_change(calc.session, input), d)
    \/ CommandsQuit
    \/ ThreadSteps
    \/ Tick(TickMs, MaxTicks) /\ PlaybackOnly

SpecCommands == InitCommands /\ [][NextCommands]_allvars

----------------------------------------------------------------------------
(* Properties *)

LastMessage(t) == t.last_sent[Len(t.last_sent)]

\* in this step thread c hands a message to the device
Sends(c) == threads'[c].last_sent # threads[c].last_sent

\* ... and the message is an event of the count-in or of the pattern
SendsTimeline(c) ==
    Sends(c) /\ LastMessage(threads'[c]).phase \in {"count_in", "body"}

IsRelease(m, note) == m.phase = "exit" /\ m.event_type = "NoteOff" /\ m.note = note

\* C1: once stop() has returned, no playback thread sends a message (trigger
\* or release) to the device until the next successful start().
C1_NoSendAfterStop ==
    [][stop_returned => \A c \in DOMAIN threads : ~Sends(c)]_vars

\* C2: at most one playback thread is executing (count-in, loop or exit code)
\* at any time.
C2_AtMostOneContext ==
    Cardinality({c \in DOMAIN threads : Alive(c)}) <= 1

\* C3: is_playing() is false after stop() has returned and after a playback
\* thread has ended on a send failure, until the next successful start();
\* and it is never true with no playback thread left to clear it.
C3_NotPlayingAfterTerminal ==
    /\ stop_returned => ~IsPlaying
    /\ \A c \in DOMAIN threads :
          threads[c].pc = "done" /\ threads[c].failure = "fresh" => ~IsPlaying
    /\ IsPlaying => \E c \in DOMAIN threads : threads[c].pc # "done"

C3_Witness ==
    /\ stop_returned
    /\ \E c \in DOMAIN threads : threads[c].pc = "done" /\ threads[c].failure = "fresh"
    /\ \E c \in DOMAIN threads : threads[c].pc = "done" /\ threads[c].failure = "no"

\* C4: once the flag has been cleared, a playback thread sends no further
\* count-in or pattern event (the flag is polled immediately before every
\* emission); only the final releases follow.
C4_NoEventOnceCleared ==
    [][~is_playing => \A c \in DOMAIN threads : ~SendsTimeline(c)]_vars

\* C5: start() called while the flag is true returns AlreadyRunning and changes
\* nothing: the device is not queried, no thread is spawned, the flag stays
\* true and the running thread keeps its schedule.
C5_AlreadyRunningChangesNothing ==
    [][is_playing =>
         /\ starts' = starts
         /\ Len(threads') = Len(threads)
         /\ \A in \in Patterns \X Tempos \X BOOLEAN \X DeviceAnswers :
               Start(in[1], in[2], in[3], in[4]) =>
                  /\ last_result' = "AlreadyRunning"
                  /\ UNCHANGED <<is_playing, thread_handle, threads, joinee, now,
                                 starts, stop_returned>>]_vars

C5_Witness ==
    /\ last_result = "AlreadyRunning"
    /\ is_playing
    /\ \E c \in DOMAIN threads : threads[c].pc = "body" /\ threads[c].loop_count > 0

\* C6: on every exit path a playback thread's last two messages are a release
\* of the kick note and a release of the click note.
C6_ReleasesOnExit ==
    \A c \in DOMAIN threads :
        threads[c].pc = "done" =>
            /\ Len(threads[c].last_sent) = 2
            /\ IsRelease(threads[c].last_sent[1], KICK_NOTE)
            /\ IsRelease(threads[c].last_sent[2], CLICK_NOTE)

C6_Witness ==
    \E c, d \in DOMAIN threads :
        /\ threads[c].pc = "done" /\ threads[c].failure # "no"
        /\ threads[d].pc = "done" /\ threads[d].failure = "no"

\* C7: a send failure is never retried: after a thread's send has failed, that
\* thread sends no count-in or pattern event any more.
C7_NoEventAfterFailure ==
    [][\A c \in DOMAIN threads :
          threads[c].failure # "no" => ~SendsTimeline(c)]_vars

\* C8: the start used for the events of pass n of the loop is
\* T0 + count-in duration + n * pattern duration, with T0 fixed once, whatever
\* the drift of (or the skipping of) earlier passes.
IdealLoopStart(t, n) == t.start_time + t.count_in_duration + n * t.pattern_duration

C8_LoopStartFromFixedSchedule ==
    \A c \in DOMAIN threads :
        LET t == threads[c] IN
        /\ t.pc \in {"skip_check", "body", "body_check"} =>
              t.loop_start = IdealLoopStart(t, t.loop_count)
        /\ t.pc \in {"body", "body_check"} =>
              \A i \in 1..Len(t.last_sent) :
                 t.last_sent[i].phase = "body" =>
                    t.last_sent[i].target =
                       IdealLoopStart(t, t.last_sent[i].loop)
                          + t.pattern_events[t.last_sent[i].idx].time_offset

C8_Witness ==
    \E c \in DOMAIN threads :
        /\ threads[c].pc = "body_check"
        /\ threads[c].loop_count >= 1
        /\ threads[c].max_drift_ms > 0
        /\ now > threads[c].loop_start

\* C9: if the time read before pass n begins is already past
\* loopStart(n) + pattern duration, no event of pass n is sent and the loop
\* counter advances by exactly one; pattern events are only ever sent for the
\* pass the counter stands at, and the counter never goes back.
C9_LateIterationSkipped ==
    [][\A c \in DOMAIN threads :
          LET t == threads[c] IN
          /\ (t.pc = "skip_check" /\ now > t.loop_start + t.pattern_duration
                /\ threads'[c] # t) =>
                /\ threads'[c].loop_count = t.loop_count + 1
                /\ threads'[c].pc = "loop_top"
                /\ ~Sends(c)
          /\ (Sends(c) /\ LastMessage(threads'[c]).phase = "body") =>
                /\ LastMessage(threads'[c]).loop = t.loop_count
                /\ t.pc = "body"
          /\ threads'[c].pc # "done" => threads'[c].loop_count >= t.loop_count]_vars

C9_Witness ==
    \E c \in DOMAIN threads :
        /\ threads[c].pc = "body"
        /\ threads[c].loop_count = 1
        /\ LastMessage(threads[c]).phase = "count_in"

\* C10: the count-in comes first and whole: a thread sends at most 8 count-in
\* events, a pattern event only after all 8 of them, and no count-in event
\* after a pattern event.
C10_CountInBeforeBody ==
    \A c \in DOMAIN threads :
        LET t == threads[c] IN
        /\ t.count_in_sent <= 2 * count_in_beats
        /\ t.body_sent > 0 => t.count_in_sent = 2 * count_in_beats
        /\ Len(t.last_sent) = 2 =>
              ~(t.last_sent[1].phase = "body" /\ t.last_sent[2].phase = "count_in")

\* the time offset of the pattern event a body message of thread c was sent for
OffsetOf(c, m) == threads[c].pattern_events[m.idx].time_offset

\* C11: within one pass of the loop a thread sends the pattern events in
\* non-decreasing time-offset order, and passes never interleave: a pattern
\* event that follows another belongs to the same pass, further on in the
\* timeline, or to a later pass.
C11_EventsInOrder ==
    [][\A c \in DOMAIN threads :
          (/\ Sends(c)
           /\ LastMessage(threads'[c]).phase = "body"
           /\ threads[c].last_sent # <<>>
           /\ LastMessage(threads[c]).phase = "body") =>
              LET a == LastMessage(threads[c])
                  b == LastMessage(threads'[c])
              IN  IF a.loop = b.loop
                  THEN b.idx > a.idx /\ OffsetOf(c, b) >= OffsetOf(c, a)
                  ELSE b.loop > a.loop]_vars

C11_Witness ==
    \E c \in DOMAIN threads :
        LET t == threads[c] IN
        /\ Len(t.last_sent) = 2
        /\ t.last_sent[1].phase = "body" /\ t.last_sent[2].phase = "body"
        /\ t.last_sent[1].loop < t.last_sent[2].loop
        /\ \E i \in 1..(Len(t.pattern_events) - 1) :
              t.pattern_events[i].time_offset = t.pattern_events[i + 1].time_offset

\* a timeline has been computed
TimelineApplied == calc.fn = "pattern_to_midi_events" /\ calc.applied

IsKick(e) == e.note = KICK_NOTE
IsClick(e) == e.note = CLICK_NOTE

\* when the note of an event was triggered: a release comes 100 ms (kick) or
\* 50 ms (click) after its trigger
TriggerTime(e) ==
    IF e.event_type = "NoteOn" THEN e.time_offset
    ELSE IF IsKick(e) THEN e.time_offset - 100 ELSE e.time_offset - 50

\* insertion order: the click events, beat by beat, then the kick events,
\* position by position; of one note, the trigger then the release
InsertedBefore(a, b) ==
    \/ IsClick(a) /\ IsKick(b)
    \/ a.note = b.note /\ TriggerTime(a) < TriggerTime(b)
    \/ /\ a.note = b.note /\ TriggerTime(a) = TriggerTime(b)
       /\ a.event_type = "NoteOn" /\ b.event_type = "NoteOff"

\* C12: the timeline of pattern_to_midi_events is sorted by non-decreasing
\* time offset, and events of the same offset keep their insertion order, all
\* click events before all kick events.
C12_TimelineSortedStable ==
    TimelineApplied =>
        \A i, j \in 1..Len(calc.events) :
            i < j =>
                /\ calc.events[i].time_offset <= calc.events[j].time_offset
                /\ calc.events[i].time_offset = calc.events[j].time_offset =>
                      InsertedBefore(calc.events[i], calc.events[j])

\* a click release and a kick trigger at the same offset, and a kick release and
\* the next kick's trigger at the same offset
C12_Witness ==
    /\ TimelineApplied
    /\ \E i \in 1..(Len(calc.events) - 1) :
          /\ IsClick(calc.events[i]) /\ calc.events[i].event_type = "NoteOff"
          /\ IsKick(calc.events[i + 1]) /\ calc.events[i + 1].event_type = "NoteOn"
          /\ calc.events[i].time_offset = calc.events[i + 1].time_offset
    /\ \E i \in 1..(Len(calc.events) - 1) :
          /\ IsKick(calc.events[i]) /\ calc.events[i].event_type = "NoteOff"
          /\ IsKick(calc.events[i + 1]) /\ calc.events[i + 1].event_type = "NoteOn"
          /\ calc.events[i].time_offset = calc.events[i + 1].time_offset

\* the events the timeline is to hold: a trigger and a release per kick
\* position and, with the click, per beat position
ExpectedEvents(pattern, tempo_bpm, include_click) ==
    LET position_ms == (60000 \div tempo_bpm) \div (pattern.subdivision \div 4)
        beat_ms == 60000 \div tempo_bpm
        kick_at == {i \in 0..(Len(pattern.steps) - 1) : pattern.steps[i + 1]}
        beat_at == 0..(pattern.time_signature.numerator - 1)
    IN  {[time_offset |-> i * position_ms, note |-> 36, velocity |-> 100,
          event_type |-> "NoteOn"] : i \in kick_at}
        \cup {[time_offset |-> i * position_ms + 100, note |-> 36, velocity |-> 0,
               event_type |-> "NoteOff"] : i \in kick_at}
        \cup (IF include_click
              THEN {[time_offset |-> b * beat_ms, note |-> 37, velocity |-> 80,
                     event_type |-> "NoteOn"] : b \in beat_at}
                   \cup {[time_offset |-> b * beat_ms + 50, note |-> 37,
                          velocity |-> 0, event_type |-> "NoteOff"] : b \in beat_at}
              ELSE {})

\* C13: the timeline holds exactly one trigger/release pair per kick position
\* (release 100 ms after the trigger) and, if and only if include_click is set,
\* one click trigger/release pair per beat (release 50 ms after the trigger),
\* and nothing else.
C13_TimelineContent ==
    TimelineApplied =>
        LET expected == ExpectedEvents(calc.pattern, calc.tempo_bpm, calc.include_click)
        IN  /\ {calc.events[i] : i \in 1..Len(calc.events)} = expected
            /\ Len(calc.events) = Cardinality(expected)

C13_Witness ==
    /\ TimelineApplied
    /\ ~calc.include_click
    /\ Len(calc.events) = 6
    /\ calc.pattern.steps[16]

\* rule n of the validity invariants is violated by the steps
RuleViolated(n, steps) ==
    LET len == Len(steps)
        kicks == Cardinality({i \in 1..len : steps[i]})
    IN  CASE n = 1 -> \A i \in 1..len : ~steps[i]
          [] n = 2 -> len = 0 \/ ~steps[1]
          [] n = 3 -> 8 * kicks < len \/ 2 * kicks > len
          [] n = 4 -> \E i \in 1..(len - 2) : steps[i] /\ steps[i + 1] /\ steps[i + 2]
          [] n = 5 -> ~\E i \in 1..(len - 1) : ~steps[i] /\ ~steps[i + 1]
          [] n = 6 -> \E i \in 1..(len - 8) : \A k \in 0..8 : ~steps[i + k]

\* the failure validate_steps reports for each rule
FailureOfRule ==
    <<"Pattern must have at least one kick",
      "Pattern must have kick on beat 1 (position 0)",
      "Pattern density out of range [0.125, 0.5]",
      "Pattern must not have more than 2 consecutive kicks",
      "Pattern must have at least one rest of 2+ positions",
      "Pattern must not have more than 8 consecutive rests">>

ValidateApplied == calc.fn = "validate_steps" /\ calc.applied

\* C20: validate_steps returns the failure of the lowest-numbered rule the
\* steps violate, and Ok exactly when they violate none of the six.
C20_FirstViolatedRule ==
    ValidateApplied =>
        LET violated == {n \in 1..6 : RuleViolated(n, calc.steps)}
        IN  IF violated = {}
            THEN calc.result.ok
            ELSE /\ ~calc.result.ok
                 /\ calc.result.err =
                       FailureOfRule[CHOOSE n \in violated : \A m \in violated : n <= m]

\* steps without the kick on position 0, too sparse, and resting too long
C20_Witness ==
    /\ ValidateApplied
    /\ Len(calc.steps) = 16
    /\ calc.result.err = FailureOfRule[2]
    /\ RuleViolated(3, calc.steps)
    /\ RuleViolated(6, calc.steps)

GenReturnedOk == gen.pc = "returned" /\ gen.result.kind = "Ok"

\* C14: every pattern returned by generate or generate_unique has a kick on
\* steps[0], a density within [0.125, 0.5], no run of more than 2 kicks, a run
\* of at least 2 rests and no run of more than 8 rests.
C14_ReturnedPatternValid ==
    GenReturnedOk => \A n \in 2..6 : ~RuleViolated(n, gen.result.steps)

\* generate_unique returns a pattern of four kicks after it gave up tier 3
C14_Witness ==
    /\ GenReturnedOk
    /\ gen.op = "generate_unique"
    /\ gen.failed[3] = CyclesPerTier
    /\ KickCount(gen.result.steps) = 4

\* the number of positions at which two patterns of 16 steps differ
Differences(steps, other) == Cardinality({i \in 1..16 : steps[i] # other[i]})

\* no pattern of the history is nearer than d
FarFromHistory(steps, history, d) ==
    \A k \in 1..Len(history) : Differences(steps, history[k]) >= d

\* the candidates that violate none of the six rules
WellFormedCandidates ==
    {K : K \in {k \in SUBSET DrawnPositions :
                    \A n \in 1..6 : ~RuleViolated(n, StepsOf(k))}}

\* C15: a valid candidate of a generate_unique cycle at tier d is accepted if
\* and only if it differs from every pattern of the history at d positions or
\* more (an empty history accepts it); the result (P, tier) is then at Hamming
\* distance tier or more from every pattern of the history passed in.
C15_AcceptedIffFar ==
    /\ (gen.pc = "candidate" /\ gen.op = "generate_unique") =>
          \A K \in WellFormedCandidates :
             <<gen.complexity, K>> \in DrawableCandidates =>
                LET after == AfterCandidate(K)
                    accepted == after.pc = "returned" /\ after.result.kind = "Ok"
                IN  /\ accepted <=> FarFromHistory(StepsOf(K), gen.history, gen.min_distance)
                    /\ accepted => /\ after.result.steps = StepsOf(K)
                                   /\ after.result.tier = gen.min_distance
                                   /\ after.history = gen.history
    /\ (GenReturnedOk /\ gen.op = "generate_unique") =>
          FarFromHistory(gen.result.steps, gen.history, gen.result.tier)

\* a pattern is returned at tier 2: it differs from each of the two patterns of
\* the history at exactly two positions
C15_Witness ==
    /\ GenReturnedOk
    /\ gen.op = "generate_unique"
    /\ gen.result.tier = 2
    /\ Len(gen.history) = 2
    /\ \A k \in 1..2 : Differences(gen.result.steps, gen.history[k]) = 2

GenInProgress == gen.pc \in {"cycle", "candidate"} /\ gen.op = "generate_unique"

\* the cycles that have failed when the call is at tier d, `current` of them at
\* tier d itself: ten at every tier above d, none below
FailedCyclesAt(d, current) ==
    [t \in 1..3 |-> IF t > d THEN 10 ELSE IF t = d THEN current ELSE 0]

\* C16: generate_unique tries the tiers in the order 3, 2, 1, at most 10 cycles
\* each: tier 2 only after 10 failed cycles at tier 3, tier 1 only after 10
\* more at tier 2; the tier returned is the tier of the cycle that succeeded;
\* the call fails with the exhaustion error only after all 30 cycles failed.
C16_TierEscalation ==
    /\ [](GenInProgress =>
            /\ gen.cycle < 10
            /\ gen.failed = FailedCyclesAt(gen.min_distance, gen.cycle))
    /\ []((GenReturnedOk /\ gen.op = "generate_unique") =>
            /\ gen.result.tier = gen.min_distance
            /\ gen.failed[gen.result.tier] < 10
            /\ gen.failed = FailedCyclesAt(gen.result.tier, gen.failed[gen.result.tier]))
    /\ []((gen.pc = "returned" /\ gen.op = "generate_unique" /\ gen.result.kind = "Err") =>
            /\ gen.result.message = ExhaustedMessage
            /\ gen.failed = [t \in 1..3 |-> 10])
    /\ [][GenInProgress =>
            \/ gen'.min_distance = gen.min_distance
            \/ /\ gen'.min_distance = gen.min_distance - 1
               /\ gen.failed[gen.min_distance] = 9
               /\ gen'.failed[gen.min_distance] = 10]_allvars

\* a pattern is returned at tier 1 by the fourth cycle of that tier
C16_Witness ==
    /\ GenReturnedOk
    /\ gen.op = "generate_unique"
    /\ gen.result.tier = 1
    /\ gen.failed = <<3, 10, 10>>

\* C17: with an empty history and a 4/4 signature, generate_unique succeeds,
\* reports tier 3, and does so in the first of its ten tier-3 cycles, whatever
\* the complexity and the random draws.
C17_EmptyHistoryFirstCycle ==
    (/\ gen.pc # "idle"
     /\ gen.op = "generate_unique"
     /\ gen.history = <<>>
     /\ Supported(gen.time_signature)) =>
        /\ gen.failed = <<0, 0, 0>>
        /\ gen.min_distance = 3
        /\ gen.pc = "returned" => (gen.result.kind = "Ok" /\ gen.result.tier = 3)

\* C19: generate_unique called with a signature other than 4/4 fails at once
\* with the unsupported-signature error, which differs from the exhaustion
\* error, builds no candidate and uses up no cycle of the retry budget.
C19_UnsupportedFailsFast ==
    (/\ gen.pc # "idle"
     /\ gen.op = "generate_unique"
     /\ ~Supported(gen.time_signature)) =>
        /\ ~gen.sampled
        /\ gen.failed = <<0, 0, 0>>
        /\ gen.pc = "returned" =>
              /\ gen.result.kind = "Err"
              /\ gen.result.message = UnsupportedMessage
              /\ gen.result.message # ExhaustedMessage

\* some rule-satisfying candidate the draws can build is at distance d or more
\* from every pattern of the history
TierSatisfiable(complexity, history, d) ==
    \E K \in WellFormedCandidates :
        /\ <<complexity, K>> \in DrawableCandidates
        /\ FarFromHistory(StepsOf(K), history, d)

\* the calls for which tier 1 is the only tier a candidate satisfies
OnlyTierOne ==
    {p : p \in {q \in ComplexityLevels \X Histories :
                    /\ ~TierSatisfiable(q[1], q[2], 3)
                    /\ ~TierSatisfiable(q[1], q[2], 2)
                    /\ TierSatisfiable(q[1], q[2], 1)}}

GenOnlyTierOne ==
    /\ gen.pc # "idle"
    /\ gen.op = "generate_unique"
    /\ Supported(gen.time_signature)
    /\ <<gen.complexity, gen.history>> \in OnlyTierOne

\* C18: when no valid candidate satisfies tier 3 or tier 2 against a history
\* and some valid candidate satisfies tier 1, repeated calls of generate_unique
\* under fair draws eventually return such a candidate with tier 1, and no call
\* returns a pattern with tier 3 or 2.
C18_TierOneEventually ==
    /\ []((GenOnlyTierOne /\ GenReturnedOk) =>
             /\ gen.result.tier = 1
             /\ \A n \in 1..6 : ~RuleViolated(n, gen.result.steps)
             /\ FarFromHistory(gen.result.steps, gen.history, 1))
    /\ GenOnlyTierOne ~> (GenOnlyTierOne /\ GenReturnedOk /\ gen.result.tier = 1)

\* the one candidate left by a history of eleven patterns is returned by the
\* first cycle of tier 1
C18_Witness ==
    /\ GenOnlyTierOne
    /\ GenReturnedOk
    /\ Len(gen.history) = 11
    /\ gen.result.steps = StepsOf({0, 7})
    /\ gen.result.tier = 1
    /\ gen.failed = <<0, 10, 10>>

HammingApplied == calc.fn = "hamming_distance" /\ calc.applied

\* C21: for step sequences A, B of one length, hamming_distance(A, A) = 0,
\* hamming_distance(A, B) = hamming_distance(B, A), and hamming_distance(A, B)
\* is at most the length; kicks at {0,4} against kicks at {0,8,12} give 3.
C21_HammingMetric ==
    (HammingApplied /\ Len(calc.a) = Len(calc.b)) =>
        /\ calc.aa = 0
        /\ calc.ab = calc.ba
        /\ calc.ab <= Len(calc.a)
        /\ (calc.a = StepsOf({0, 4}) /\ calc.b = StepsOf({0, 8, 12})) => calc.ab = 3

\* the two patterns of the example, compared
C21_Witness ==
    /\ HammingApplied
    /\ calc.a = StepsOf({0, 4})
    /\ calc.b = StepsOf({0, 8, 12})
    /\ calc.ab = 3

\* the last n elements of a sequence, or all of it
LastOf(seq, n) ==
    IF Len(seq) <= n THEN seq ELSE SubSeq(seq, Len(seq) - n + 1, Len(seq))

\* C22: after any sequence of add_to_history calls the history holds at most 20
\* patterns, the most recently added ones in insertion order; an addition to a
\* full history evicts exactly the oldest entry.
C22_HistoryBounded ==
    /\ [](calc.fn = "add_to_history" =>
            /\ Len(calc.pattern_history) <= 20
            /\ calc.pattern_history = LastOf(calc.added, 20))
    /\ [][(calc.fn = "add_to_history" /\ Len(calc.pattern_history) = 20) =>
            /\ Len(calc'.pattern_history) = 20
            /\ SubSeq(calc'.pattern_history, 1, 19) = SubSeq(calc.pattern_history, 2, 20)
            /\ calc'.pattern_history[20] = calc'.added[Len(calc'.added)]]_allvars

\* a full history has evicted its first pattern, which differed from the second
C22_Witness ==
    /\ calc.fn = "add_to_history"
    /\ Len(calc.added) = 21
    /\ calc.added[1] # calc.added[2]
    /\ Len(calc.pattern_history) = 20
    /\ calc.pattern_history[1] = calc.added[2]

\* the range of kick counts of each complexity level
KickRange(complexity) ==
    CASE complexity = "Simple" -> 2..4
      [] complexity = "Medium" -> 4..6
      [] complexity = "Complex" -> 6..8

\* C23: every pattern generated for a complexity level has a kick count inside
\* the range of the level: Simple 2 to 4, Medium 4 to 6, Complex 6 to 8.
C23_KickCountInRange ==
    GenReturnedOk => KickCount(gen.result.steps) \in KickRange(gen.complexity)

\* the step is a call of start() that failed at the output device
StartFailedAtDevice == starts' = starts + 1 /\ last_result' = "DeviceUnavailable"

\* C24: a start() that fails because there is no output port or the connection
\* fails returns an error and changes nothing else: the flag stays false, no
\* thread is spawned, no event is sent, and a later start() is not refused.
C24_DeviceFailureIsLocal ==
    /\ [][StartFailedAtDevice =>
            /\ ~is_playing /\ ~is_playing'
            /\ threads' = threads
            /\ thread_handle' = thread_handle]_vars
    /\ [](last_result = "DeviceUnavailable" => ~is_playing)
    /\ [][last_result = "DeviceUnavailable" => last_result' # "AlreadyRunning"]_vars

\* a start() has succeeded after one that failed at the device
C24_Witness ==
    /\ starts = 2
    /\ Len(threads) = 1
    /\ last_result = "Ok"
    /\ is_playing

\* thread c has taken its start time and sent nothing yet, and the clock of the
\* model reaches the start of its loop
BegunWithinHorizon(c) ==
    /\ c \in DOMAIN threads
    /\ threads[c].pc = "count_in"
    /\ threads[c].count_in_sent = 0
    /\ threads[c].start_time + threads[c].count_in_duration <= MaxTicks * TickMs

\* thread c has sent its whole count-in and an event of its pattern
PlayedCountInAndBody(c) ==
    /\ c \in DOMAIN threads
    /\ threads[c].count_in_sent = 2 * count_in_beats
    /\ threads[c].body_sent > 0

\* thread c was interrupted: the flag is cleared (stop()), or a send failed
Interrupted(c) ==
    /\ c \in DOMAIN threads
    /\ ~is_playing \/ threads[c].failure # "no"

EntersPass(c) == threads[c].pc = "loop_top" /\ threads'[c].pc = "skip_check"

\* how late the pass thread c enters is, against its fixed schedule
ObservedDrift(c) ==
    LET t == threads[c]
        loopStart == t.pattern_start_time + t.loop_count * t.pattern_duration
    IN  IF now > loopStart THEN now - loopStart ELSE 0

\* C26: in every pass of the loop that starts more than 10 ms after
\* loopStart(n) a drift warning is reported, whether or not the drift exceeds
\* the maximum recorded so far; the recorded maximum never decreases.
C26_WarningWheneverLate ==
    [][\A c \in DOMAIN threads :
          EntersPass(c) =>
             /\ ObservedDrift(c) > 10 => threads'[c].warned
             /\ threads'[c].max_drift_ms >= threads[c].max_drift_ms]_vars

\* run 2 can take the step run 1 has just taken
FollowSteps ==
    \/ ThreadBegin(2)
    \/ \E ok \in BOOLEAN : SameAnswer(2, ok) /\ CountInSend(2, ok)
    \/ CountInCheck(2)
    \/ LoopTop(2)
    \/ SkipCheck(2)
    \/ \E ok \in BOOLEAN : SameAnswer(2, ok) /\ BodySend(2, ok)
    \/ BodyCheck(2)
    \/ ExitKick(2)
    \/ ExitClick(2)

\* C27: the drift record never alters the scheduling: two runs that agree on
\* the clock readings, the pattern, the tempo and the flag send the same events
\* with the same targets and skip the same passes, whatever their recorded
\* maximum drift and their warnings are.
C27_DriftDoesNotSchedule ==
    /\ [](~InStep => ENABLED FollowSteps)
    /\ [][~InStep => InStep']_vars

\* the two runs, their recorded maxima apart, have skipped a pass and are
\* sending the events of the next one
C27_Witness ==
    /\ InStep
    /\ threads[1].max_drift_ms # threads[2].max_drift_ms
    /\ threads[1].pc = "body_check"
    /\ threads[1].loop_count > 0
    /\ threads[1].body_sent > 0

GridApplied == calc.fn = "beat_grid" /\ calc.applied

\* C28: total_positions is (subdivision/4) * (numerator*4/denominator) *
\* measureCount and the pattern's duration is total_positions *
\* (60/tempoBpm) / (subdivision/4), both as rational numbers (the equations
\* are cleared of their denominators, durations in ms); a one-measure 4/4 grid
\* of sixteenths at 120 BPM has 16 positions of 125 ms and lasts 2000 ms
C28_GridSizeAndDuration ==
    GridApplied =>
        /\ calc.total_positions * 4 * calc.time_signature.denominator
               = calc.subdivision * calc.time_signature.numerator * 4
                     * calc.num_measures
        /\ calc.pattern_duration * calc.tempo_bpm * calc.subdivision
               = calc.total_positions * 60000 * 4
        /\ ( /\ calc.time_signature = FourFour
             /\ calc.subdivision = 16
             /\ calc.num_measures = 1
             /\ calc.tempo_bpm = 120 )
              => /\ calc.total_positions = 16
                 /\ calc.seconds_per_position = 125
                 /\ calc.pattern_duration = 2000

\* the timeline event thread c is about to send, and the instant it is due
DueEvent(c) ==
    LET t == threads[c]
    IN  IF t.pc = "count_in"
        THEN Message("count_in", 0, t.idx, t.count_in_events[t.idx],
                     t.start_time + t.count_in_events[t.idx].time_offset, TRUE)
        ELSE Message("body", t.loop_count, t.idx, t.pattern_events[t.idx],
                     t.loop_start + t.pattern_events[t.idx].time_offset, TRUE)

AtEvent(c) == threads[c].pc \in {"count_in", "body"}

LastSent(t) == t.last_sent[Len(t.last_sent)]

\* the body events of the current pass are sent one by one, in order
InOrder(c) ==
    LET t == threads[c]
    IN  /\ t.pc = "body" => t.body_sent = t.idx - 1
        /\ t.pc = "body_check" =>
              /\ t.body_sent = t.idx
              /\ LastSent(t).phase = "body"
              /\ LastSent(t).loop = t.loop_count
              /\ LastSent(t).idx = t.idx
              /\ LastSent(t).ok

\* the thread's next step at an event is the sending of that event, at or
\* after its instant
SendsDueEvent(c) ==
    (AtEvent(c) /\ threads'[c] # threads[c]) =>
        /\ now >= DueEvent(c).target
        /\ threads'[c].last_sent # <<>>
        /\ [LastSent(threads'[c]) EXCEPT !.ok = TRUE] = DueEvent(c)

\* a pass of the loop ends after an event while the flag is still set
PassCompletes(c) ==
    /\ threads[c].pc = "body_check"
    /\ is_playing
    /\ threads'[c].pc = "loop_top"

\* C29: no count-in or body event is sent before its instant (start_time +
\* offset, loop_start + offset); an event whose instant has passed can be sent
\* at once and the thread's only step at an event is to send it, so a pass that
\* is neither skipped, stopped nor failed has sent every body event once, in
\* order
C29_SentAtOrAfterTarget ==
    /\ [](\A c \in DOMAIN threads :
            /\ InOrder(c)
            /\ (AtEvent(c) /\ now >= DueEvent(c).target)
                  => ENABLED (BodySend(c, TRUE) \/ CountInSend(c, TRUE)))
    /\ [][\A c \in DOMAIN threads :
            /\ SendsDueEvent(c)
            /\ PassCompletes(c) =>
                  threads[c].body_sent = Len(threads[c].pattern_events)]_vars

\* the first pass was entered late by more than the first event's offset (so
\* that event was sent after its instant), was not skipped, and every event of
\* the pattern has been sent while the flag is still set
C29_Witness ==
    \E c \in DOMAIN threads :
        LET t == threads[c]
        IN  /\ t.pc = "body_check"
            /\ is_playing
            /\ t.loop_count = 0
            /\ t.pattern_events[1].time_offset < t.max_drift_ms
            /\ t.idx = Len(t.pattern_events)
            /\ t.body_sent = Len(t.pattern_events)

\* C30: on the 4/4 grid of sixteenths the generator's base weight of every
\* position 0..15 is the grid's position_strength of that position
C30_BaseWeightsArePositionStrengths ==
    ( /\ calc.fn = "base_weights"
      /\ calc.applied
      /\ calc.time_signature = FourFour
      /\ calc.subdivision = 16 )
        => calc.base_weight = calc.position_strength

Sampling == calc.fn = "sampling"

\* C31: while a candidate is sampled position 0 is a kick, a draw of a position
\* already set changes no step, no draw removes a kick, a draw is made only
\* while the count is below the target and fewer than 100 draws were made, the
\* loop ends only when the count equals the target or 100 draws were made, and
\* the count never exceeds the target
C31_SamplingLoop ==
    /\ [](Sampling =>
            /\ calc.steps[1]
            /\ KickCount(calc.steps) <= calc.target_kicks
            /\ calc.attempts <= DrawsPerCandidate
            /\ calc.pc = "built" =>
                  \/ KickCount(calc.steps) = calc.target_kicks
                  \/ calc.attempts = DrawsPerCandidate
            /\ (calc.pc = "while" /\ ( \/ KickCount(calc.steps) = calc.target_kicks
                                       \/ calc.attempts = DrawsPerCandidate ))
                  => /\ ENABLED SampleEnd
                     /\ \A idx \in SampledPositions : ~ENABLED SampleDraw(idx))
    /\ [][Sampling =>
            /\ \A i \in DOMAIN calc.steps : calc.steps[i] => calc'.steps[i]
            /\ KickCount(calc'.steps) >= KickCount(calc.steps)
            /\ KickCount(calc'.steps) <= KickCount(calc.steps) + 1
            /\ (calc'.attempts # calc.attempts) =>
                  /\ KickCount(calc.steps) < calc.target_kicks
                  /\ calc.attempts < DrawsPerCandidate
                  /\ calc'.attempts = calc.attempts + 1
            /\ (calc'.attempts = calc.attempts) => calc'.steps = calc.steps]_allvars

\* a candidate built with its target count of kicks after more draws than new
\* kicks: some draws fell on positions already set
C31_Witness ==
    /\ Sampling
    /\ calc.pc = "built"
    /\ KickCount(calc.steps) = calc.target_kicks
    /\ calc.attempts > calc.target_kicks
    /\ calc.attempts < DrawsPerCandidate

\* the passes of the candidate loop and entries of try_generate_with_distance
\* a call of generate_unique can still make
StepsLeft(g) ==
    LET cycles == (g.min_distance - 1) * CyclesPerTier + (CyclesPerTier - g.cycle)
    IN  CASE g.pc = "cycle" -> cycles * (CandidatesPerCycle + 1)
          [] g.pc = "candidate" ->
                (cycles - 1) * (CandidatesPerCycle + 1) + (CandidatesPerCycle - g.attempt)
          [] OTHER -> 0

\* C32: every call of generate_unique returns, whatever the history and the
\* draws: it is in one of at most 3 * 10 cycles and one of at most 100
\* candidates of that cycle, every step of it uses up one of the candidates or
\* cycles left, and it ends with a pattern and its tier or with an error
C32_GenerateUniqueTerminates ==
    /\ [](GenInProgress =>
            /\ gen.min_distance \in 1..3
            /\ gen.cycle < CyclesPerTier
            /\ gen.attempt < CandidatesPerCycle
            /\ gen.failed[1] + gen.failed[2] + gen.failed[3] < 3 * CyclesPerTier
            /\ StepsLeft(gen) \in 1..(3 * CyclesPerTier * (CandidatesPerCycle + 1)))
    /\ [][GenInProgress =>
            /\ gen'.pc \in {"cycle", "candidate", "returned"}
            /\ StepsLeft(gen') < StepsLeft(gen)]_allvars
    /\ []((gen.pc = "returned" /\ gen.op = "generate_unique") =>
            \/ gen.result.kind = "Ok" /\ gen.result.tier \in 1..3
            \/ gen.result.kind = "Err")
    /\ GenInProgress ~> (gen.pc = "returned" /\ gen.op = "generate_unique")

\* a call in 4/4 that returned the error after all its candidates were built
\* and discarded
C32_Witness ==
    /\ gen.pc = "returned"
    /\ gen.op = "generate_unique"
    /\ gen.result.kind = "Err"
    /\ Supported(gen.time_signature)
    /\ gen.sampled
    /\ gen.failed[1] + gen.failed[2] + gen.failed[3] = 3 * CyclesPerTier

InSession == calc.fn = "session"

\* C33: a new-pattern command whose generation fails leaves the history, the
\* current pattern, patterns_generated and the revealed flag as they were, and
\* starts the playback again with the current pattern at the current tempo
\* (the program goes on when the device answers, and ends when it does not)
C33_FailedNewPatternKeepsSession ==
    [][(InSession /\ calc'.command = "new_pattern_failed") =>
          /\ calc.pc = "input"
          /\ calc'.session.pattern_history = calc.session.pattern_history
          /\ calc'.session.current_pattern = calc.session.current_pattern
          /\ calc'.session.patterns_generated = calc.session.patterns_generated
          /\ calc'.session.pattern_revealed = calc.session.pattern_revealed
          /\ calc'.session.tempo_bpm = calc.session.tempo_bpm
          /\ \/ /\ calc'.pc = "input"
                /\ calc'.playback = Playing(calc.session.current_pattern,
                                            calc.session.tempo_bpm)
             \/ /\ calc'.pc = "ended"
                /\ calc'.playback = NotPlaying]_allvars

\* generation has failed for a session of several patterns whose current
\* pattern was revealed and whose tempo was changed: it plays on as it was
C33_Witness ==
    /\ InSession
    /\ calc.command = "new_pattern_failed"
    /\ calc.pc = "input"
    /\ calc.session.pattern_revealed
    /\ calc.session.tempo_bpm = 300
    /\ Len(calc.session.pattern_history) = 3
    /\ calc.playback = Playing(calc.session.pattern_history[3], 300)

\* C34: whatever the commands of a session, no two patterns held in the
\* history at the same time have the same steps: their Hamming distance is at
\* least 1
C34_HistoryPairwiseDistinct ==
    InSession =>
        \A i, j \in DOMAIN calc.session.pattern_history :
            i < j => hamming_distance(calc.session.pattern_history[i].steps,
                                      calc.session.pattern_history[j].steps) >= 1

\* a full history after evictions, and a failed generation among the commands
C34_Witness ==
    /\ InSession
    /\ Len(calc.session.pattern_history) = HistoryCapacity
    /\ calc.session.patterns_generated > HistoryCapacity + 1
    /\ calc.command = "new_pattern_failed"

\* C40: once the first pattern is generated, after any commands (generations
\* that succeed or fail among them) the history holds min(patterns_generated,
\* 20) patterns and the current pattern is the last one added to it
C40_HistoryCountsGenerations ==
    (InSession /\ calc.command # "none" /\ calc.session.patterns_generated > 0) =>
        /\ Len(calc.session.pattern_history) =
              IF calc.session.patterns_generated < HistoryCapacity
              THEN calc.session.patterns_generated
              ELSE HistoryCapacity
        /\ calc.session.current_pattern =
              calc.session.pattern_history[Len(calc.session.pattern_history)]

\* more patterns generated than the history holds, the last command a
\* successful generation
C40_Witness ==
    /\ InSession
    /\ calc.pc = "input"
    /\ calc.command = "new_pattern"
    /\ calc.session.patterns_generated = HistoryCapacity + 2
    /\ Len(calc.session.pattern_history) = HistoryCapacity

InCommands == calc.fn = "commands"

\* the step is a call of start() by the command loop
CallsStart ==
    /\ InCommands
    /\ \/ calc.pc = "run"
       \/ calc.pc = "stopping" /\ calc.command # "quit"
    /\ calc'.pc \in {"input", "ended"}

\* C35: whatever the keys pressed, the command loop calls start() only with
\* the running flag false, so that no call answers AlreadyRunning; every call
\* but the first comes after a stop() that has returned, with every earlier
\* playback thread ended
C35_StartOnlyWhenStopped ==
    /\ [](InCommands => last_result # "AlreadyRunning")
    /\ [][CallsStart =>
            /\ ~is_playing
            /\ last_result' \in {"Ok", "DeviceUnavailable"}
            /\ \A c \in DOMAIN threads : threads[c].pc = "done"
            /\ calc.pc = "stopping" => stop_returned /\ thread_handle = 0]_allvars

\* the playback was started a second time, by a new-pattern command, after its
\* first thread had sent events and was stopped
C35_Witness ==
    /\ InCommands
    /\ calc.pc = "input"
    /\ calc.command = "new_pattern"
    /\ starts = 2
    /\ last_result = "Ok"
    /\ is_playing
    /\ Len(threads) = 2
    /\ threads[1].pc = "done"
    /\ threads[1].last_sent # <<>>

\* three kicks on consecutive positions of the loop, the position after the
\* last being position 0
LoopedKickRun(steps) ==
    /\ Len(steps) >= 3
    /\ \E i \in 0..(Len(steps) - 1) :
          /\ steps[i + 1]
          /\ steps[((i + 1) % Len(steps)) + 1]
          /\ steps[((i + 2) % Len(steps)) + 1]

\* C36: a pattern validate_steps accepts has no more than 2 kicks on
\* consecutive positions when it is played in a loop, the end of the pattern
\* being followed by its start
C36_NoLoopedKickRun ==
    (calc.fn = "validate_steps" /\ calc.applied /\ calc.result.ok)
        => ~LoopedKickRun(calc.steps)

\* C37: every event of the body timeline of a valid pattern has an offset
\* smaller than the pattern's duration, at every tempo
C37_EventsWithinPattern ==
    (TimelineApplied /\ validate_steps(calc.pattern.steps).ok) =>
        \A k \in DOMAIN calc.events :
            calc.events[k].time_offset < pattern_duration(calc.pattern, calc.tempo_bpm)

\* the events of one note, in timeline order
EventsOfNote(events, note) ==
    SelectSeq(events, LAMBDA e : e.note = note)

\* triggers and releases take turns, a trigger first
Alternates(events) ==
    \A k \in DOMAIN events :
        events[k].event_type = (IF k % 2 = 1 THEN "NoteOn" ELSE "NoteOff")

\* C38: in the sorted body timeline of a valid pattern the triggers and the
\* releases of each note (kick 36, click 37) strictly alternate, starting with
\* a trigger, at every tempo
C38_TriggersAndReleasesAlternate ==
    (TimelineApplied /\ validate_steps(calc.pattern.steps).ok) =>
        \A note \in {36, 37} : Alternates(EventsOfNote(calc.events, note))

\* C39: for each of the six time signatures, with subdivision 16 and one
\* measure, beat_positions returns one index per beat and every index is
\* smaller than total_positions
C39_BeatPositionsInsideGrid ==
    (GridApplied /\ calc.subdivision = Subdivision /\ calc.num_measures = 1) =>
        /\ Len(calc.beat_positions) = calc.time_signature.numerator
        /\ \A b \in DOMAIN calc.beat_positions :
              calc.beat_positions[b] < calc.total_positions

====
